---- MODULE Spec2Model ----
(***************************************************************************)
(* The ETL orchestration engine: the retry loop of BaseETL.run with its    *)
(* checkpoint / run-history bookkeeping (ingestion/base.py), the scoped    *)
(* transaction of get_db_context (core/database.py), the orchestrator      *)
(* ETLService (services/etl_service.py) with the callers that trigger it   *)
(* (api/main.py, api/routes.py) and the token bucket (core/rate_limiter.py)*)
(***************************************************************************)
EXTENDS Integers, Sequences, FiniteSets, TLC

(***************************************************************************)
(* Bounds of the model.                                                    *)
(***************************************************************************)
\* largest max_retries a direct caller passes to run()
MaxRetries == 3
\* run() invocations a direct caller makes in one behaviour
MaxInvocations == 2
\* calls into ETLService in one behaviour
MaxCalls == 2
\* faults (of the persistence layer, of a constructor) in one behaviour of the service
MaxFaults == 1
\* sources whose extract() is down in one behaviour of the service
MaxDown == 1
\* RateLimiter: the largest rate_limit, the acquire() calls and the clock
\* advances of a behaviour, and the resolution of the clock
MaxRate == 2
MaxAcquires == 4
MaxSleeps == 3
TicksPerSec == 2
\* threads that call into one limiter, or into the registry, at the same time
MaxWorkers == 2
\* the attempts with data in one behaviour
MaxIngests == 2
\* the sources a service may have in its registry when run_all_sources is called
MaxSources == 4


(***************************************************************************)
(* Values.                                                                 *)
(***************************************************************************)
\* Python's None
None == "None"

\* the registry of ETLService.__init__, in registration (dict) order
Sources == <<"coinpaprika", "coingecko", "csv">>

SourceSet == {Sources[i] : i \in 1..Len(Sources)}

\* str(e) of what extract() raises (httpx transport error, HTTP status error)
ExtractErrors == {"ConnectTimeout", "HTTPStatusError"}

\* str(e) of what extract() of a source that is down raises
DownError == "ConnectTimeout"

\* str(e) of a persistence failure (connection loss) in a load, a query or a commit
DbError == "OperationalError"

\* str(e) of a unique-constraint violation raised by the flush of a commit
IntegrityError == "IntegrityError"

\* str(e) of an upsert statement that holds one key twice
CardinalityError == "CardinalityViolation"

(***************************************************************************)
(* The data of an attempt: items as extract() returns them, transform()    *)
(* with the CoinCreate validation, and the normalized records.             *)
(* A value that may be None is a set: {} for None, {v} for the value v.    *)
(* Text is a sequence of characters.                                       *)
(***************************************************************************)
Null == {}

\* str.upper(), character by character
UpperChar(c) ==
    CASE c = "a" -> "A" [] c = "b" -> "B" [] c = "e" -> "E"
      [] c = "n" -> "N" [] c = "o" -> "O" [] OTHER -> c

Upper(text) == [i \in 1..Len(text) |-> UpperChar(text[i])]

\* the characters str.upper() changes
LowerCase == {"a", "b", "e", "n", "o"}

\* str(value): the text itself, and "None" for None
Str(v) == IF v = Null THEN <<"N", "o", "n", "e">> ELSE CHOOSE x \in v : TRUE

\* the texts and numbers items are made of
Ids == {<<>>, <<"a">>}
Symbols == {<<>>, <<"b">>, <<"B">>, <<"b", "1">>}
Names == {<<>>, <<"n">>}
Numbers == {0 - 1, 0, 1}

\* None or a value of S
Optional(S) == {Null} \cup {{v} : v \in S}

\* an item with every key, under source-neutral key names
FullItems ==
    [id : Optional(Ids), symbol : Optional(Symbols), name : Optional(Names),
     current_price : Optional(Numbers), market_cap : Optional(Numbers),
     volume_24h : Optional(Numbers), price_change_24h : Optional(Numbers),
     rank : Optional(Numbers)]

\* the item without the keys K
Without(item, K) == [k \in DOMAIN item \ K |-> item[k]]

\* what extract() can return as an item: keys may be missing, values None
Items == {Without(item, K) : item \in FullItems, K \in SUBSET {"id", "symbol"}}

\* item.get(key, default)
Get(item, key, default) == IF key \in DOMAIN item THEN item[key] ELSE default

\* _parse_float / _parse_int of the csv source: None and '' give None, a numeral
\* its number
Parse(v) == IF v = Null THEN Null ELSE v

\* building coin_data raises: item.get('symbol', '').upper() on None, which the
\* csv source avoids with str()
BuildRaises(source, item) ==
    source # "csv" /\ Get(item, "symbol", {<<>>}) = Null

\* coin_data of transform, for an item on which building it does not raise
CoinData(source, item, t) ==
    [coin_id |-> Get(item, "id", {<<>>}),
     symbol |-> IF source = "csv"
                THEN {Upper(Str(Get(item, "symbol", {<<>>})))}
                ELSE {Upper(x) : x \in Get(item, "symbol", {<<>>})},
     name |-> Get(item, "name", {<<>>}),
     current_price |-> IF source = "csv" THEN Parse(Get(item, "current_price", Null))
                       ELSE Get(item, "current_price", Null),
     market_cap |-> IF source = "csv" THEN Parse(Get(item, "market_cap", Null))
                    ELSE Get(item, "market_cap", Null),
     volume_24h |-> IF source = "csv" THEN Parse(Get(item, "volume_24h", Null))
                    ELSE Get(item, "volume_24h", Null),
     price_change_24h |-> IF source = "csv"
                          THEN Parse(Get(item, "price_change_24h", Null))
                          ELSE Get(item, "price_change_24h", Null),
     rank |-> IF source = "csv" THEN Parse(Get(item, "rank", Null))
              ELSE Get(item, "rank", Null),
     source |-> source,
     last_updated |-> t]

\* Field(..., min_length=1) of a str field: a text of at least one character
Required(v) == v # Null /\ \A x \in v : Len(x) >= 1

\* CoinCreate(**coin_data) raises no ValidationError
Validates(coin_data) ==
    /\ Required(coin_data.coin_id)
    /\ Required(coin_data.symbol)
    /\ Required(coin_data.name)

\* validator symbol_uppercase
symbol_uppercase(v) == {Upper(x) : x \in v}

\* validator validate_numeric, on current_price, market_cap, volume_24h and
\* price_change_24h
validate_numeric(v) == IF v # Null /\ \E x \in v : x < 0 THEN Null ELSE v

\* CoinCreate(**coin_data).model_dump()
CoinCreate(coin_data) ==
    [coin_data EXCEPT !.symbol = symbol_uppercase(@),
                      !.current_price = validate_numeric(@),
                      !.market_cap = validate_numeric(@),
                      !.volume_24h = validate_numeric(@),
                      !.price_change_24h = validate_numeric(@)]

\* the body of transform's loop: the record of the item, or nothing when
\* building or validating raised
TransformItem(source, item, t) ==
    IF BuildRaises(source, item) THEN <<>>
    ELSE IF ~Validates(CoinData(source, item, t)) THEN <<>>
    ELSE <<CoinCreate(CoinData(source, item, t))>>

\* transform(raw_data)
RECURSIVE Transform(_, _, _)
Transform(source, raw_data, t) ==
    IF raw_data = <<>> THEN <<>>
    ELSE TransformItem(source, Head(raw_data), t) \o Transform(source, Tail(raw_data), t)

(***************************************************************************)
(* The tables raw_<source> and coins: what load_raw and load_normalized    *)
(* leave in them.                                                          *)
(***************************************************************************)
\* an item of the sample: its id, symbol and price, a name, nothing else
Sample(id, symbol, price) ==
    [id |-> id, symbol |-> symbol, name |-> {<<"n">>}, current_price |-> price,
     market_cap |-> Null, volume_24h |-> Null, price_change_24h |-> Null,
     rank |-> Null]

\* what extract() can return: nothing, one coin at either of two prices, two
\* coins, one coin twice, a coin and an item with an empty symbol, an item
\* whose id is None
Batches ==
    {<<>>,
     <<Sample({<<"a">>}, {<<"b">>}, {0})>>,
     <<Sample({<<"a">>}, {<<"b">>}, {1})>>,
     <<Sample({<<"a">>}, {<<"b">>}, {1}), Sample({<<"c">>}, {<<"b">>}, {1})>>,
     <<Sample({<<"a">>}, {<<"b">>}, {0}), Sample({<<"a">>}, {<<"b">>}, {1})>>,
     <<Sample({<<"a">>}, {<<"b">>}, {1}), Sample({<<"c">>}, {<<>>}, {1})>>,
     <<Sample(Null, {<<"b">>}, {1})>>}

\* the coin_id of the raw record: item.get('id', 'unknown')
RawCoinId(item) == Get(item, "id", {<<"u">>})

\* raw_<source>.coin_id is nullable=False: the flush of such a record fails
RawRejected(raw_data) ==
    \E i \in 1..Len(raw_data) : RawCoinId(raw_data[i]) = Null

\* an insert that finds no conflict
ConflictingNone(rows, rec) == {}

\* a unique index on coin_id alone: a record conflicts with the row of any source
ConflictingAnySource(rows, rec) ==
    {x \in rows : x.coin_id = rec.coin_id}


\* the rows the unique constraint uq_coin_source sets against rec
Conflicting(rows, rec) ==
    {x \in rows : x.coin_id = rec.coin_id /\ x.source = rec.source}

\* a load without the early return: the statement with no values is rejected too
BatchRejectedEmpty(normalized_data) ==
    \/ Len(normalized_data) = 0
    \/ \E i, j \in 1..Len(normalized_data) :
          /\ i < j
          /\ normalized_data[i].coin_id = normalized_data[j].coin_id
          /\ normalized_data[i].source = normalized_data[j].source


\* ON CONFLICT DO UPDATE cannot affect a row a second time: two records of one
\* statement with the same (coin_id, source)
BatchRejected(normalized_data) ==
    \E i, j \in 1..Len(normalized_data) :
        /\ i < j
        /\ normalized_data[i].coin_id = normalized_data[j].coin_id
        /\ normalized_data[i].source = normalized_data[j].source

\* an update that also rewrites created_at
UpdatedAll(row, rec, t) ==
    [row EXCEPT !.name = rec.name, !.symbol = rec.symbol,
                !.current_price = rec.current_price, !.market_cap = rec.market_cap,
                !.volume_24h = rec.volume_24h,
                !.price_change_24h = rec.price_change_24h, !.rank = rec.rank,
                !.last_updated = rec.last_updated, !.created_at = t,
                !.updated_at = t]

\* the set_ of on_conflict_do_update, at the statement's utcnow() t
Updated(row, rec, t) ==
    [row EXCEPT !.name = rec.name, !.symbol = rec.symbol,
                !.current_price = rec.current_price, !.market_cap = rec.market_cap,
                !.volume_24h = rec.volume_24h,
                !.price_change_24h = rec.price_change_24h, !.rank = rec.rank,
                !.last_updated = rec.last_updated, !.updated_at = t]

\* the row a record is inserted as, with the column defaults
Inserted(id, rec, t) ==
    [id |-> id, coin_id |-> rec.coin_id, symbol |-> rec.symbol, name |-> rec.name,
     current_price |-> rec.current_price, market_cap |-> rec.market_cap,
     volume_24h |-> rec.volume_24h, price_change_24h |-> rec.price_change_24h,
     source |-> rec.source, rank |-> rec.rank, last_updated |-> rec.last_updated,
     created_at |-> t, updated_at |-> t]

\* the upsert of one record into the table tbl = [rows, seq]
Upsert(tbl, rec, t) ==
    IF Conflicting(tbl.rows, rec) = {}
    THEN [rows |-> tbl.rows \cup {Inserted(tbl.seq + 1, rec, t)}, seq |-> tbl.seq + 1]
    ELSE [rows |-> {IF x \in Conflicting(tbl.rows, rec) THEN Updated(x, rec, t) ELSE x :
                      x \in tbl.rows},
          seq |-> tbl.seq]

\* insert(Coin).values(normalized_data).on_conflict_do_update(...)
RECURSIVE UpsertAll(_, _, _)
UpsertAll(tbl, normalized_data, t) ==
    IF normalized_data = <<>> THEN tbl
    ELSE UpsertAll(Upsert(tbl, Head(normalized_data), t), Tail(normalized_data), t)

(***************************************************************************)
(* Pipeline objects, sessions and calls.                                   *)
(***************************************************************************)
\* who calls into the engine: a caller using a pipeline object directly, the
\* event-loop thread of the API (startup and POST /etl/run), the scheduler thread
Threads == {"direct", "api", "scheduler"}

\* where a pipeline object lives: the one variable of the direct caller, and one
\* task per source of each thread that calls the orchestrator
DirectSlots == {<<"direct", "etl">>}

Slots == DirectSlots \cup (Threads \X SourceSet)

\* no etl_checkpoints row for a source
NoRow ==
    [status |-> "absent", error_message |-> None, records_processed |-> 0,
     last_run_at |-> Null, last_success_at |-> Null, last_failure_at |-> Null]

\* a session with nothing pending
NoStaged ==
    [ckpt_snap |-> NoRow, ckpt_new |-> NoRow,
     run_rec |-> [run_id |-> 0, source |-> None, status |-> None,
                  error_message |-> None, records_processed |-> 0],
     raw_data |-> <<>>, normalized_data |-> <<>>, at |-> 0]

\* a thread that has made no call into ETLService
NoCall ==
    [kind |-> "none", state |-> "idle", parallel |-> FALSE, arg |-> None,
     results |-> [s \in {} |-> "none"], ret |-> "none", seq_i |-> 0,
     unfinished |-> 0, ctor_raised |-> {}]

\* a slot holding no pipeline object
NoPipeline ==
    [pc |-> "free", source_name |-> None, run_id |-> 0, inst |-> 0, inv |-> 0,
     uses |-> 0, max_retries |-> 0, attempt |-> 0, last_error |-> None, staged |-> NoStaged,
     ret |-> "none", extract_calls |-> 0, extract_ok |-> FALSE, db_fault |-> FALSE,
     last_exc |-> None, fin_error |-> None, tokens_acquired |-> 0,
     backoff_factor |-> 0, slept |-> <<>>, started_at |-> 0, records_processed |-> 0]

VARIABLES
    checkpoints,   \* table etl_checkpoints (committed): source -> row or NoRow
    etl_runs,      \* table etl_runs (committed): set of rows
    next_uuid,     \* the next value uuid.uuid4() returns
    run,           \* slot -> the pipeline object in it and the position of its run()
    n_inst,        \* history: pipeline objects constructed so far
    n_inv,         \* history: run() invocations so far
    inv_log,       \* history: (invocation, pipeline object, run_id it used)
    env,           \* what the environment may do: extract per source, faults
    call,          \* thread -> its call into ETLService, in progress or returned
    n_calls,       \* history: calls into ETLService so far
    server,        \* lifecycle of the API process: "off", "starting", "serving"
    limiter,       \* a RateLimiter object: rate_limit, tokens, last_update
    now,           \* what time.time() returns, in ticks
    acquire_log,   \* history: the acquire() calls so far, with time and result
    n_sleeps,      \* history: how often the clock has advanced
    lock,          \* the Lock of the limiter and of the registry: its holder
    thread,        \* worker thread -> its call of acquire or get_limiter
    limiters,      \* RateLimiterRegistry.limiters: source -> RateLimiter object
    n_limiters,    \* history: RateLimiter objects constructed by the registry
    tokens0,       \* history: the tokens the limiter held before the threads came
    coins,         \* table coins (committed): set of rows
    raw_tables,    \* tables raw_<source> (committed): source -> number of rows
    coin_seq,      \* the sequence behind coins.id
    ingest,        \* worker thread -> the data of its attempt and where it stands
    n_ingests,     \* history: attempts begun so far
    pool,          \* the ThreadPoolExecutor of a run_all_sources(parallel=True)
    utcnow         \* what datetime.utcnow() returns

vars == <<checkpoints, etl_runs, next_uuid, run, n_inst, n_inv, inv_log, env,
          call, n_calls, server, limiter, now, acquire_log, n_sleeps,
          lock, thread, limiters, n_limiters, tokens0,
          coins, raw_tables, coin_seq, ingest, n_ingests, pool, utcnow>>

\* the data an attempt moves, and the tables it lands in
ingestion == <<coins, raw_tables, coin_seq, ingest, n_ingests, pool, utcnow>>

\* the data tables
tables == <<coins, raw_tables, coin_seq>>

\* the state of the rate limiter and its clock
bucket == <<limiter, now, acquire_log, n_sleeps,
            lock, thread, limiters, n_limiters, tokens0>>

\* the state of the pipelines, the database and the orchestrator
pipelines == <<checkpoints, etl_runs, next_uuid, run, n_inst, n_inv, inv_log, env,
               call, n_calls, server>>

\* the state of the threads that share a limiter or the registry
shared == <<lock, thread, limiters, n_limiters, tokens0>>

\* the state of the orchestrator's callers
orch == <<call, n_calls, server>>

\* no run_all_sources(parallel=True) under observation
NoPool == [n |-> 0, submitted |-> 0, queue |-> <<>>, worker |-> <<>>, task |-> <<>>,
           returned |-> FALSE]


(***************************************************************************)
(* The environment.                                                        *)
(***************************************************************************)
\* faults are not limited
Unlimited == -1

\* what extract() of source s may do on a call
ExtractOutcomes(s) ==
    CASE env.extract[s] = "ok" -> {"ok"}
      [] env.extract[s] = "fail" -> {DownError}
      [] OTHER -> {"ok"} \cup ExtractErrors

\* whether the persistence layer may fail the next operation
DbMayFail == env.faults_left # 0

\* the environment after it failed one operation
AfterDbFault ==
    IF env.faults_left > 0
    THEN [env EXCEPT !.faults_left = @ - 1]
    ELSE env

(***************************************************************************)
(* BaseETL: construction, checkpoint and run-record bookkeeping.           *)
(***************************************************************************)
\* a generator that hands out its previous value once more
Uuid4Stale(k) == IF next_uuid + k > 1 THEN next_uuid + k - 1 ELSE next_uuid + k

\* uuid.uuid4(), the call after k further calls: a value never returned before
Uuid4(k) == next_uuid + k

\* BaseETL.__init__: the pipeline object of source s, the one constructed after
\* k further ones
NewPipeline(s, k) ==
    [NoPipeline EXCEPT !.pc = "ready", !.source_name = s, !.run_id = Uuid4(k),
                       !.inst = n_inst + k + 1, !.started_at = utcnow]

\* an update that leaves the message of an earlier failure on a success
UpdateCheckpointKeepsMessage(self, row, status, error_message, t) ==
    IF row # NoRow
    THEN [row EXCEPT !.last_run_at = {t},
                     !.status = status,
                     !.records_processed = self.records_processed,
                     !.last_success_at = IF status = "success" THEN {t} ELSE @,
                     !.last_failure_at = IF status = "failure" THEN {t} ELSE @,
                     !.error_message = IF status = "failure" THEN error_message ELSE @]
    ELSE [status |-> status, error_message |-> error_message,
          records_processed |-> self.records_processed,
          last_run_at |-> {t},
          last_success_at |-> IF status = "success" THEN {t} ELSE Null,
          last_failure_at |-> IF status = "failure" THEN {t} ELSE Null]

\* an update that stamps last_success_at whatever the status
UpdateCheckpointStampsBoth(self, row, status, error_message, t) ==
    IF row # NoRow
    THEN [row EXCEPT !.last_run_at = {t},
                     !.status = status,
                     !.records_processed = self.records_processed,
                     !.last_success_at = {t},
                     !.last_failure_at = IF status = "failure" THEN {t} ELSE @,
                     !.error_message = IF status = "success" THEN None
                                       ELSE IF status = "failure" THEN error_message
                                       ELSE @]
    ELSE [status |-> status, error_message |-> error_message,
          records_processed |-> self.records_processed,
          last_run_at |-> {t},
          last_success_at |-> IF status = "success" THEN {t} ELSE Null,
          last_failure_at |-> IF status = "failure" THEN {t} ELSE Null]

\* an update that leaves last_run_at of an existing row as it was
UpdateCheckpointKeepsRunAt(self, row, status, error_message, t) ==
    IF row # NoRow
    THEN [row EXCEPT !.status = status,
                     !.records_processed = self.records_processed,
                     !.last_success_at = IF status = "success" THEN {t} ELSE @,
                     !.last_failure_at = IF status = "failure" THEN {t} ELSE @,
                     !.error_message = IF status = "success" THEN None
                                       ELSE IF status = "failure" THEN error_message
                                       ELSE @]
    ELSE [status |-> status, error_message |-> error_message,
          records_processed |-> self.records_processed,
          last_run_at |-> {t},
          last_success_at |-> IF status = "success" THEN {t} ELSE Null,
          last_failure_at |-> IF status = "failure" THEN {t} ELSE Null]


\* update_checkpoint at time t: the row it leaves pending, from the row its
\* query read
UpdateCheckpoint(self, row, status, error_message, t) ==
    IF row # NoRow
    THEN [row EXCEPT !.last_run_at = {t},
                     !.status = status,
                     !.records_processed = self.records_processed,
                     !.last_success_at = IF status = "success" THEN {t} ELSE @,
                     !.last_failure_at = IF status = "failure" THEN {t} ELSE @,
                     !.error_message = IF status = "success" THEN None
                                       ELSE IF status = "failure" THEN error_message
                                       ELSE @]
    ELSE [status |-> status, error_message |-> error_message,
          records_processed |-> self.records_processed,
          last_run_at |-> {t},
          last_success_at |-> IF status = "success" THEN {t} ELSE Null,
          last_failure_at |-> IF status = "failure" THEN {t} ELSE Null]

\* create_run_record: the row it adds to the session
CreateRunRecord(self, status, error_message) ==
    [run_id |-> self.run_id, source |-> self.source_name, status |-> status,
     error_message |-> error_message, records_processed |-> self.records_processed]

\* the session after update_checkpoint and create_run_record of one transaction
Stage(self, status, error_message) ==
    [NoStaged EXCEPT
       !.ckpt_snap = checkpoints[self.source_name],
       !.ckpt_new = UpdateCheckpoint(self, checkpoints[self.source_name], status,
                                     error_message, utcnow),
       !.run_rec = CreateRunRecord(self, status, error_message)]

\* self.records_processed += len(normalized_data)
Counted(self, normalized_data) ==
    [self EXCEPT !.records_processed = @ + Len(normalized_data)]

\* the session of an attempt before its commit: the raw records added by
\* load_raw, the upsert executed by load_normalized, the checkpoint and the
\* run record of a success
StageAttempt(self, raw_data, normalized_data) ==
    [Stage(self, "success", None) EXCEPT !.raw_data = raw_data,
                                         !.normalized_data = normalized_data,
                                         !.at = utcnow]

(***************************************************************************)
(* The scoped transaction: flush and commit.                               *)
(***************************************************************************)
\* a schema without the unique constraint on etl_checkpoints.source
IntegrityViolationRunsOnly(st, src) ==
    \E x \in etl_runs : x.run_id = st.run_rec.run_id

\* the unique constraints of etl_checkpoints.source and etl_runs.run_id
IntegrityViolation(st, src) ==
    \/ st.ckpt_snap = NoRow /\ checkpoints[src] # NoRow
    \/ \E x \in etl_runs : x.run_id = st.run_rec.run_id

\* the checkpoint row after the flush: an INSERT of the new row, or an UPDATE of
\* the columns whose value the session changed since it loaded the row
FlushCheckpoint(cur, st) ==
    IF st.ckpt_snap = NoRow
    THEN st.ckpt_new
    ELSE [f \in DOMAIN st.ckpt_new |->
            IF st.ckpt_new[f] # st.ckpt_snap[f] THEN st.ckpt_new[f] ELSE cur[f]]

\* a flush whose statement lacks the filter on the source
CommittedCheckpointsAll(st, src) ==
    [s \in SourceSet |-> FlushCheckpoint(checkpoints[s], st)]

\* db.commit() of a session holding st, for source src
CommittedCheckpoints(st, src) ==
    [checkpoints EXCEPT ![src] = FlushCheckpoint(@, st)]

\* a session that forgets the run record it holds
CommittedRunsDropped(st) == etl_runs

CommittedRuns(st) == etl_runs \cup {st.run_rec}

\* a rollback that leaves the flushed checkpoint row behind
RollbackPartial(st, src) ==
    [ckpts |-> [checkpoints EXCEPT ![src] = st.ckpt_new], runs |-> etl_runs]

\* get_db_context, an exception in the scope or in db.commit(): db.rollback()
\* leaves both tables as committed before
Rollback(st, src) == [ckpts |-> checkpoints, runs |-> etl_runs]

\* get_db_context, normal exit of the scope: db.commit()
CommitTxn(st, src) ==
    [ckpts |-> CommittedCheckpoints(st, src), runs |-> CommittedRuns(st)]

\* a session whose raw records stay behind when the transaction fails
RolledBackTablesKeepsRaw(st, src) ==
    [coins |-> coins, coin_seq |-> coin_seq,
     raw_tables |-> [raw_tables EXCEPT ![src] = @ + Len(st.raw_data)]]

\* the data tables after db.rollback() of a session holding st
RolledBackTables(st, src) ==
    [coins |-> coins, coin_seq |-> coin_seq, raw_tables |-> raw_tables]

\* what the flush of the commit is rejected for: the unique constraints of the
\* bookkeeping tables, the NOT NULL of the raw table
FlushRejected(st, src) ==
    IntegrityViolation(st, src) \/ RawRejected(st.raw_data)

\* the data tables after the commit of a session holding st, for source src
CommittedTables(st, src) ==
    LET tbl == UpsertAll([rows |-> coins, seq |-> coin_seq], st.normalized_data, st.at)
    IN [coins |-> tbl.rows, coin_seq |-> tbl.seq,
        raw_tables |-> [raw_tables EXCEPT ![src] = @ + Len(st.raw_data)]]

(***************************************************************************)
(* BaseETL.run: the retry loop.                                            *)
(***************************************************************************)
\* entry of run(max_retries = n, backoff_factor = b), the invocation after k
\* further ones: attempt = 0, last_error = None, the loop test
\* a loop that tests its condition after the body: one attempt at least
EnterRunAtLeastOnce(self, n, b, k) ==
    [self EXCEPT !.max_retries = n, !.backoff_factor = b, !.slept = <<>>,
                 !.tokens_acquired = 0,
                 !.attempt = 0, !.last_error = None,
                 !.staged = NoStaged, !.ret = "none", !.inv = n_inv + k + 1,
                 !.uses = @ + 1,
                 !.extract_calls = 0, !.extract_ok = FALSE, !.db_fault = FALSE,
                 !.last_exc = None, !.fin_error = None,
                 !.pc = "attempt"]


EnterRun(self, n, b, k) ==
    [self EXCEPT !.max_retries = n, !.backoff_factor = b, !.slept = <<>>,
                 !.tokens_acquired = 0,
                 !.attempt = 0, !.last_error = None,
                 !.staged = NoStaged, !.ret = "none", !.inv = n_inv + k + 1,
                 !.uses = @ + 1,
                 !.extract_calls = 0, !.extract_ok = FALSE, !.db_fault = FALSE,
                 !.last_exc = None, !.fin_error = None,
                 !.pc = IF 0 < n THEN "attempt" ELSE "finalize"]

\* b ** e
RECURSIVE Pow(_, _)
Pow(b, e) == IF e <= 0 THEN 1 ELSE b * Pow(b, e - 1)

\* a delay whose exponent counts the failed attempts from zero
WaitTimeFromZero(backoff_factor, attempt) == Pow(backoff_factor, attempt - 1)

\* wait_time = backoff_factor ** attempt, attempt already counting this failure
WaitTime(backoff_factor, attempt) == Pow(backoff_factor, attempt)

\* whether extract() of the source begins with self.rate_limiter.wait()
Gated(s) == s \in {"coinpaprika", "coingecko"}

\* the tokens one extract() takes from the limiter before it retrieves
Waited(s) == IF Gated(s) THEN 1 ELSE 0

\* self.extract(): the wait on the limiter where there is one, then the retrieval
Extracted(self) ==
    [self EXCEPT !.extract_calls = @ + 1,
                 !.tokens_acquired = @ + Waited(self.source_name)]

\* a handler that keeps the error of the first failed attempt
AttemptFailedKeepsFirst(self, e) ==
    [self EXCEPT !.last_error = IF @ = None THEN e ELSE @, !.attempt = @ + 1,
                 !.staged = NoStaged,
                 !.slept = IF self.attempt + 1 < self.max_retries
                           THEN Append(@, WaitTime(self.backoff_factor, self.attempt + 1))
                           ELSE @,
                 !.pc = IF self.attempt + 1 < self.max_retries THEN "attempt"
                        ELSE "finalize"]

\* a loop test that lets one attempt more through
AttemptFailedOnceMore(self, e) ==
    [self EXCEPT !.last_error = e, !.attempt = @ + 1, !.staged = NoStaged,
                 !.slept = IF self.attempt + 1 < self.max_retries
                           THEN Append(@, WaitTime(self.backoff_factor, self.attempt + 1))
                           ELSE @,
                 !.pc = IF self.attempt + 1 <= self.max_retries THEN "attempt"
                        ELSE "finalize"]

\* a handler that runs while the session of the failed attempt is still open
AttemptFailedKeepsSession(self, e) ==
    [self EXCEPT !.last_error = e, !.attempt = @ + 1,
                 !.slept = IF self.attempt + 1 < self.max_retries
                           THEN Append(@, WaitTime(self.backoff_factor, self.attempt + 1))
                           ELSE @,
                 !.pc = IF self.attempt + 1 < self.max_retries THEN "attempt"
                        ELSE "finalize"]

\* the except branch of the loop: the session is rolled back and closed,
\* last_error = str(e), attempt += 1, sleep if an attempt remains, loop test
AttemptFailed(self, e) ==
    [self EXCEPT !.last_error = e, !.attempt = @ + 1, !.staged = NoStaged,
                 !.slept = IF self.attempt + 1 < self.max_retries
                           THEN Append(@, WaitTime(self.backoff_factor, self.attempt + 1))
                           ELSE @,
                 !.pc = IF self.attempt + 1 < self.max_retries THEN "attempt"
                        ELSE "finalize"]

\* a commit whose failure is lost behind the return value
CommitFailedReturnsTrue(self, e) ==
    [self EXCEPT !.staged = NoStaged, !.pc = "done", !.ret = "true"]

\* db.commit() raises at the exit of the with block: the exception takes the
\* place of the return value and reaches the except branch of the loop
CommitFailed(self, e) == AttemptFailed(self, e)

\* return True, out of the with block whose commit succeeded
ReturnTrue(self) ==
    [self EXCEPT !.staged = NoStaged, !.pc = "done", !.ret = "true"]

\* a finalization whose failure is not caught
FinalizationFailedRaises(self, e) ==
    [self EXCEPT !.staged = NoStaged, !.pc = "raised", !.ret = "raised", !.fin_error = e]

\* the except branch after the loop: the failure is logged, then return False
FinalizationFailed(self, e) ==
    [self EXCEPT !.staged = NoStaged, !.pc = "done", !.ret = "false", !.fin_error = e]

\* return False, after the finalization committed
ReturnFalse(self) ==
    [self EXCEPT !.staged = NoStaged, !.pc = "done", !.ret = "false"]

\* the invocation's entry in the history of run_ids used
Logged(self) ==
    inv_log \cup {[inv |-> self.inv, inst |-> self.inst, run_id |-> self.run_id]}

\* one attempt up to its commit: open the session, extract, load_raw, transform,
\* load_normalized, update_checkpoint('success'), create_run_record('success')
Attempt(r) ==
    /\ run[r].pc = "attempt"
    /\ inv_log' = Logged(run[r])
    /\ \/ \E e \in ExtractOutcomes(run[r].source_name) \ {"ok"} :
            /\ run' = [run EXCEPT ![r] =
                        AttemptFailed([Extracted(@) EXCEPT !.last_exc = e], e)]
            /\ env' = env
       \/ /\ "ok" \in ExtractOutcomes(run[r].source_name)
          /\ \E raw_data \in env.data :
               LET normalized_data == Transform(run[r].source_name, raw_data, utcnow)
                   self == [Extracted(run[r]) EXCEPT !.extract_ok = TRUE]
               IN \/ /\ DbMayFail
                     \* the statement of load_normalized fails, or the query
                     \* of update_checkpoint after it
                     /\ \E loaded \in BOOLEAN :
                          run' = [run EXCEPT ![r] =
                                    AttemptFailed(
                                      [(IF loaded /\ ~BatchRejected(normalized_data)
                                        THEN Counted(self, normalized_data)
                                        ELSE self)
                                       EXCEPT !.db_fault = TRUE, !.last_exc = DbError],
                                      DbError)]
                     /\ env' = AfterDbFault
                  \/ /\ BatchRejected(normalized_data)
                     /\ run' = [run EXCEPT ![r] =
                                 AttemptFailed([self EXCEPT !.last_exc = CardinalityError],
                                               CardinalityError)]
                     /\ env' = env
                  \/ /\ ~BatchRejected(normalized_data)
                     /\ run' = [run EXCEPT ![r] =
                                 [Counted(self, normalized_data) EXCEPT
                                    !.pc = "commit",
                                    !.staged = StageAttempt(Counted(self, normalized_data),
                                                            raw_data, normalized_data)]]
                     /\ env' = env
    /\ UNCHANGED <<checkpoints, etl_runs, next_uuid, n_inst, n_inv, orch, bucket, ingestion>>

\* the exit of the with block of an attempt: db.commit(), then return True;
\* a commit that fails is rolled back and handled as a failed attempt
Commit(r) ==
    /\ run[r].pc = "commit"
    /\ LET st == run[r].staged
           src == run[r].source_name
       IN \/ /\ DbMayFail
             /\ run' = [run EXCEPT ![r] =
                          CommitFailed([@ EXCEPT !.db_fault = TRUE,
                                                 !.last_exc = DbError], DbError)]
             /\ env' = AfterDbFault
             /\ checkpoints' = Rollback(st, src).ckpts
             /\ etl_runs' = Rollback(st, src).runs
             /\ coins' = RolledBackTables(st, src).coins
             /\ coin_seq' = RolledBackTables(st, src).coin_seq
             /\ raw_tables' = RolledBackTables(st, src).raw_tables
          \/ /\ FlushRejected(st, src)
             /\ run' = [run EXCEPT ![r] =
                          CommitFailed([@ EXCEPT !.last_exc = IntegrityError],
                                       IntegrityError)]
             /\ env' = env
             /\ checkpoints' = Rollback(st, src).ckpts
             /\ etl_runs' = Rollback(st, src).runs
             /\ coins' = RolledBackTables(st, src).coins
             /\ coin_seq' = RolledBackTables(st, src).coin_seq
             /\ raw_tables' = RolledBackTables(st, src).raw_tables
          \/ /\ ~FlushRejected(st, src)
             /\ checkpoints' = CommitTxn(st, src).ckpts
             /\ etl_runs' = CommitTxn(st, src).runs
             /\ coins' = CommittedTables(st, src).coins
             /\ coin_seq' = CommittedTables(st, src).coin_seq
             /\ raw_tables' = CommittedTables(st, src).raw_tables
             /\ run' = [run EXCEPT ![r] = ReturnTrue(@)]
             /\ env' = env
    /\ UNCHANGED <<next_uuid, n_inst, n_inv, inv_log, orch, bucket, ingest, n_ingests, pool,
                   utcnow>>

\* after the loop: a fresh session, update_checkpoint('failure', last_error),
\* create_run_record('failure', last_error)
Finalize(r) ==
    /\ run[r].pc = "finalize"
    /\ inv_log' = Logged(run[r])
    /\ \/ /\ DbMayFail
          /\ run' = [run EXCEPT ![r] =
                        FinalizationFailed([@ EXCEPT !.db_fault = TRUE], DbError)]
          /\ env' = AfterDbFault
       \/ /\ run' = [run EXCEPT ![r] =
                        [@ EXCEPT !.pc = "fin_commit",
                                  !.staged = Stage(run[r], "failure", run[r].last_error)]]
          /\ env' = env
    /\ UNCHANGED <<checkpoints, etl_runs, next_uuid, n_inst, n_inv, orch, bucket, ingestion>>

\* the exit of the with block of the finalization: db.commit(), then return False
FinalCommit(r) ==
    /\ run[r].pc = "fin_commit"
    /\ LET st == run[r].staged
           src == run[r].source_name
       IN \/ /\ DbMayFail
             /\ run' = [run EXCEPT ![r] =
                          FinalizationFailed([@ EXCEPT !.db_fault = TRUE], DbError)]
             /\ env' = AfterDbFault
             /\ checkpoints' = Rollback(st, src).ckpts
             /\ etl_runs' = Rollback(st, src).runs
          \/ /\ IntegrityViolation(st, src)
             /\ run' = [run EXCEPT ![r] = FinalizationFailed(@, IntegrityError)]
             /\ env' = env
             /\ checkpoints' = Rollback(st, src).ckpts
             /\ etl_runs' = Rollback(st, src).runs
          \/ /\ ~IntegrityViolation(st, src)
             /\ checkpoints' = CommitTxn(st, src).ckpts
             /\ etl_runs' = CommitTxn(st, src).runs
             /\ run' = [run EXCEPT ![r] = ReturnFalse(@)]
             /\ env' = env
    /\ UNCHANGED <<next_uuid, n_inst, n_inv, inv_log, orch, bucket, ingestion>>

\* a step of the run() in slot r
RunStep(r) == Attempt(r) \/ Commit(r) \/ Finalize(r) \/ FinalCommit(r)

(***************************************************************************)
(* A caller that uses a pipeline object directly, one run() at a time.     *)
(***************************************************************************)
\* the variable that holds the direct caller's pipeline object
Etl == <<"direct", "etl">>

InProgress(r) == run[r].pc \in {"attempt", "commit", "finalize", "fin_commit"}

DirectIdle == \A r \in DirectSlots : ~InProgress(r) /\ run[r].pc # "ready"

\* etl = etl_class()
DirectConstruct(s) ==
    /\ DirectIdle
    /\ n_inv < MaxInvocations
    /\ run' = [run EXCEPT ![Etl] = NewPipeline(s, 0)]
    /\ next_uuid' = next_uuid + 1
    /\ n_inst' = n_inst + 1
    \* the caller constructs each object at a later time than the one before
    /\ utcnow' = utcnow + 1
    /\ UNCHANGED <<checkpoints, etl_runs, n_inv, inv_log, env, orch, bucket, tables,
                   ingest, n_ingests, pool>>

\* etl.run(max_retries = n) on the object just constructed
DirectRun(n, b) ==
    /\ run[Etl].pc = "ready"
    /\ run' = [run EXCEPT ![Etl] = EnterRun(@, n, b, 0)]
    /\ n_inv' = n_inv + 1
    /\ UNCHANGED <<checkpoints, etl_runs, next_uuid, n_inst, inv_log, env, orch, bucket, ingestion>>

\* etl.run(max_retries = n) once more on an object whose run() has returned
DirectRerun(n, b) ==
    /\ n_inv < MaxInvocations
    /\ run[Etl].pc = "done"
    /\ run' = [run EXCEPT ![Etl] = EnterRun(@, n, b, 0)]
    /\ n_inv' = n_inv + 1
    /\ UNCHANGED <<checkpoints, etl_runs, next_uuid, n_inst, inv_log, env, orch, bucket, ingestion>>

(***************************************************************************)
(* ETLService: run_single_source, run_all_sources, get_etl_status.         *)
(***************************************************************************)
\* run(self, max_retries: int = 3, ...), the value every orchestrated run gets
DefaultMaxRetries == 3

\* run(self, ..., backoff_factor: float = 2.0)
DefaultBackoffFactor == 2

\* the position of source s in the registry
Idx(s) == CHOOSE i \in 1..Len(Sources) : Sources[i] = s

\* the slots of the tasks of thread c
TaskSlots(c) == {c} \X SourceSet

\* a task that has ended: its run() returned, or etl_class() raised
Finished(r) == run[r].pc \in {"done", "ctor_raised"}

\* whether etl_class() may raise
CtorMayFail == env.faults_left # 0

\* a task whose etl_class() raised
CtorRaised(s) == [NoPipeline EXCEPT !.pc = "ctor_raised", !.source_name = s]

\* a service that keeps its pipeline objects and runs the last one again
DispatchedReused(s, k) ==
    EnterRun([NewPipeline(s, k) EXCEPT !.inst = n_inst + k, !.uses = 1],
             DefaultMaxRetries, DefaultBackoffFactor, k)

\* etl = etl_class(); etl.run(), up to the loop test: the k-th further
\* construction and invocation
Dispatched(s, k) ==
    EnterRun(NewPipeline(s, k), DefaultMaxRetries, DefaultBackoffFactor, k)

\* the slots of thread c emptied, its pipeline objects being garbage
Cleared(c) == [r \in Slots |-> IF r \in TaskSlots(c) THEN NoPipeline ELSE run[r]]

\* a thread can make a call when it is in none
CanCall(c) ==
    /\ call[c].state # "active"
    /\ n_calls < MaxCalls

\* run_single_source(s), up to the call of etl.run()
RunSingleStart(c, s) ==
    /\ CanCall(c)
    /\ n_calls' = n_calls + 1
    /\ \/ /\ s \notin SourceSet
          /\ call' = [call EXCEPT ![c] =
                        [NoCall EXCEPT !.kind = "single", !.arg = s,
                                       !.state = "returned", !.ret = "false"]]
          /\ UNCHANGED <<run, next_uuid, n_inst, n_inv, env>>
       \/ /\ s \in SourceSet
          /\ CtorMayFail
          /\ call' = [call EXCEPT ![c] =
                        [NoCall EXCEPT !.kind = "single", !.arg = s,
                                       !.state = "raised", !.ctor_raised = {s}]]
          /\ env' = AfterDbFault
          /\ UNCHANGED <<run, next_uuid, n_inst, n_inv>>
       \/ /\ s \in SourceSet
          /\ call' = [call EXCEPT ![c] =
                        [NoCall EXCEPT !.kind = "single", !.arg = s,
                                       !.state = "active"]]
          /\ run' = [run EXCEPT ![<<c, s>>] = Dispatched(s, 0)]
          /\ next_uuid' = next_uuid + 1
          /\ n_inst' = n_inst + 1
          /\ n_inv' = n_inv + 1
          /\ env' = env
    /\ UNCHANGED <<checkpoints, etl_runs, inv_log, bucket, ingestion>>

\* return etl.run()
RunSingleReturn(c) ==
    /\ call[c].kind = "single"
    /\ call[c].state = "active"
    /\ run[<<c, call[c].arg>>].pc = "done"
    /\ call' = [call EXCEPT ![c] = [@ EXCEPT !.state = "returned",
                                             !.ret = run[<<c, call[c].arg>>].ret]]
    /\ run' = Cleared(c)
    /\ UNCHANGED <<checkpoints, etl_runs, next_uuid, n_inst, n_inv, inv_log, env,
                   n_calls, server, bucket, ingestion>>

\* run_all_sources(parallel): the parallel branch submits one task per source to
\* the pool of three workers, and each task constructs its pipeline and enters
\* run(); the sequential branch starts its loop
RunAllStart(c, parallel) ==
    /\ CanCall(c)
    /\ n_calls' = n_calls + 1
    /\ call' = [call EXCEPT ![c] =
                  [NoCall EXCEPT !.kind = "all", !.parallel = parallel,
                                 !.state = "active"]]
    /\ IF parallel
       THEN /\ \E f \in {None} \cup (IF CtorMayFail THEN SourceSet ELSE {}) :
                 /\ run' = [r \in Slots |->
                              IF r \in TaskSlots(c)
                              THEN IF r[2] = f THEN CtorRaised(r[2])
                                   ELSE Dispatched(r[2], Idx(r[2]) - 1)
                              ELSE run[r]]
                 /\ env' = IF f # None THEN AfterDbFault ELSE env
            /\ next_uuid' = next_uuid + Len(Sources)
            /\ n_inst' = n_inst + Len(Sources)
            /\ n_inv' = n_inv + Len(Sources)
       ELSE UNCHANGED <<run, env, next_uuid, n_inst, n_inv>>
    /\ UNCHANGED <<checkpoints, etl_runs, inv_log, bucket, ingestion>>

\* the exit of the with ThreadPoolExecutor block waits for every task
AllTasksFinished(c) == \A r \in TaskSlots(c) : Finished(r)

\* the as_completed loop: results[source] = future.result(), False when the
\* task raised
Collected(c) ==
    [s \in SourceSet |->
        IF run[<<c, s>>].pc = "ctor_raised" THEN "false" ELSE run[<<c, s>>].ret]

\* the parallel branch from the as_completed loop to return results
RunAllCollect(c) ==
    /\ call[c].kind = "all"
    /\ call[c].parallel
    /\ call[c].state = "active"
    /\ AllTasksFinished(c)
    /\ call' = [call EXCEPT ![c] =
                  [@ EXCEPT !.state = "returned", !.results = Collected(c),
                            !.unfinished = Cardinality({r \in TaskSlots(c) : ~Finished(r)}),
                            !.ctor_raised = {s \in SourceSet :
                                               run[<<c, s>>].pc = "ctor_raised"}]]
    /\ run' = Cleared(c)
    /\ UNCHANGED <<checkpoints, etl_runs, next_uuid, n_inst, n_inv, inv_log, env,
                   n_calls, server, bucket, ingestion>>

\* a loop that does not wait for the call it has made
SeqReturnedAtOnce(c, i) == TRUE

\* the call run_single_source(Sources[i]) of the sequential loop has returned:
\* the loop makes its i-th call on its own thread and goes on after it
SeqReturned(c, i) ==
    IF i = 0 THEN TRUE ELSE run[<<c, Sources[i]>>].pc = "done"


\* the sequential branch: results[source] = self.run_single_source(source) for
\* the sources in registration order, then return results; an exception of
\* run_single_source leaves the loop and run_all_sources
RunAllSeqNext(c) ==
    /\ call[c].kind = "all"
    /\ ~call[c].parallel
    /\ call[c].state = "active"
    /\ LET i == call[c].seq_i
           results == IF i = 0 THEN call[c].results
                      ELSE call[c].results @@ (Sources[i] :> run[<<c, Sources[i]>>].ret)
       IN /\ SeqReturned(c, i)
          /\ IF i = Len(Sources)
             THEN /\ call' = [call EXCEPT ![c] =
                                [@ EXCEPT !.state = "returned", !.results = results]]
                  /\ run' = Cleared(c)
                  /\ UNCHANGED <<env, next_uuid, n_inst, n_inv>>
             ELSE \/ /\ CtorMayFail
                     /\ call' = [call EXCEPT ![c] =
                                   [@ EXCEPT !.state = "raised", !.results = results,
                                             !.ctor_raised = {Sources[i + 1]}]]
                     /\ run' = Cleared(c)
                     /\ env' = AfterDbFault
                     /\ UNCHANGED <<next_uuid, n_inst, n_inv>>
                  \/ /\ call' = [call EXCEPT ![c] =
                                   [@ EXCEPT !.seq_i = i + 1, !.results = results]]
                     /\ run' = [run EXCEPT ![<<c, Sources[i + 1]>>] =
                                  Dispatched(Sources[i + 1], 0)]
                     /\ next_uuid' = next_uuid + 1
                     /\ n_inst' = n_inst + 1
                     /\ n_inv' = n_inv + 1
                     /\ env' = env
    /\ UNCHANGED <<checkpoints, etl_runs, inv_log, n_calls, server, bucket, ingestion>>

\* get_etl_status: the query of all checkpoints in a scoped transaction, projected
\* to a mapping; a failure of the query leaves get_db_context and get_etl_status
GetStatus(c) ==
    /\ CanCall(c)
    /\ n_calls' = n_calls + 1
    /\ \/ /\ DbMayFail
          /\ call' = [call EXCEPT ![c] =
                        [NoCall EXCEPT !.kind = "status", !.state = "raised"]]
          /\ env' = AfterDbFault
       \/ /\ call' = [call EXCEPT ![c] =
                        [NoCall EXCEPT !.kind = "status", !.state = "returned",
                                       !.results =
                                          [s \in {x \in SourceSet : checkpoints[x] # NoRow}
                                             |-> checkpoints[s].status]]]
          /\ env' = env
    /\ UNCHANGED <<checkpoints, etl_runs, next_uuid, run, n_inst, n_inv, inv_log,
                   bucket, ingestion>>

(***************************************************************************)
(* RateLimiter: a token bucket read against time.time().  Time is counted  *)
(* in ticks and tokens in parts of a token, so that the refill is exact.   *)
(***************************************************************************)
\* the 60.0 of the refill: rate_limit tokens per 60 seconds
Window == 60

\* the parts of one token: a tick refills rate_limit parts
Unit == Window * TicksPerSec

\* how far the clock advances between two calls: a tick, half a minute, a minute
Sleeps == {1, (Window \div 2) * TicksPerSec, Window * TicksPerSec}

Min(a, b) == IF a <= b THEN a ELSE b

\* no limiter constructed
NoLimiter == [rate_limit |-> 0, tokens |-> 0, last_update |-> 0]

\* RateLimiter(rate_limit), constructed at time t: the bucket starts full
RateLimiterInit(rate_limit, t) ==
    [rate_limit |-> rate_limit, tokens |-> rate_limit * Unit, last_update |-> t]

\* a refill that is not capped at rate_limit
RefilledUncapped(l, t) == l.tokens + (t - l.last_update) * l.rate_limit

\* a bucket that is never refilled
RefilledNever(l, t) == l.tokens


\* the refill at time t: min(rate_limit, tokens + time_passed * rate_limit / 60.0)
Refilled(l, t) ==
    Min(l.rate_limit * Unit, l.tokens + (t - l.last_update) * l.rate_limit)

\* a test that wants more than the tokens asked for
EnoughStrict(filled, tokens) == filled > tokens * Unit

\* if self.tokens >= tokens
Enough(filled, tokens) == filled >= tokens * Unit

\* a limiter that moves last_update only when it grants
AfterAcquireKeepsClock(l, t, tokens) ==
    LET filled == Refilled(l, t)
    IN IF Enough(filled, tokens)
       THEN [l EXCEPT !.tokens = filled - tokens * Unit, !.last_update = t]
       ELSE [l EXCEPT !.tokens = filled]

\* the limiter after acquire(tokens) at time t
AfterAcquire(l, t, tokens) ==
    LET filled == Refilled(l, t)
    IN [l EXCEPT !.tokens = IF Enough(filled, tokens) THEN filled - tokens * Unit
                            ELSE filled,
                 !.last_update = t]

\* acquire(tokens), under self.lock: refill, then deduct if enough is there
Acquire(tokens) ==
    /\ limiter # NoLimiter
    /\ Len(acquire_log) < MaxAcquires
    /\ limiter' = AfterAcquire(limiter, now, tokens)
    /\ acquire_log' = Append(acquire_log,
                             [t |-> now, ok |-> Enough(Refilled(limiter, now), tokens),
                              tokens |-> tokens])
    /\ UNCHANGED <<now, n_sleeps, shared>>
    /\ UNCHANGED <<checkpoints, etl_runs, next_uuid, run, n_inst, n_inv, inv_log,
                   env, orch, ingestion>>

\* time passes between two calls
Sleep(d) ==
    /\ limiter # NoLimiter
    /\ n_sleeps < MaxSleeps
    /\ now' = now + d
    /\ n_sleeps' = n_sleeps + 1
    /\ UNCHANGED <<limiter, acquire_log, shared>>
    /\ UNCHANGED <<checkpoints, etl_runs, next_uuid, run, n_inst, n_inv, inv_log,
                   env, orch, ingestion>>

(***************************************************************************)
(* Threads on one RateLimiter: acquire() statement by statement.           *)
(***************************************************************************)
Workers == 1..MaxWorkers

\* the two locks: RateLimiter.lock and RateLimiterRegistry.lock
Locks == {"limiter", "registry"}

\* a Lock that nobody holds
Unlocked == 0

\* a thread that is in no call
NoThread == [pc |-> "idle", source |-> None, rate_limit |-> 0, new |-> 0,
             ret |-> None]

\* a source that has no limiter in the registry
NoEntry == [id |-> 0, limiter |-> NoLimiter]

\* a lock that excludes nobody
LockIgnored(l) == TRUE

\* with self.lock: the lock can be taken when nobody holds it
LockFree(l) == lock[l] = Unlocked

\* a thread calls acquire(tokens)
AcquireCall(w) ==
    /\ limiter # NoLimiter
    /\ thread[w].pc = "idle"
    /\ thread' = [thread EXCEPT ![w].pc = "a_enter"]
    /\ UNCHANGED <<limiter, now, acquire_log, n_sleeps, lock, limiters, n_limiters,
                   tokens0,
                   pipelines, ingestion>>

\* with self.lock:
AcquireLock(w) ==
    /\ thread[w].pc = "a_enter"
    /\ LockFree("limiter")
    /\ lock' = [lock EXCEPT !["limiter"] = w]
    /\ thread' = [thread EXCEPT ![w].pc = "a_refill"]
    /\ UNCHANGED <<limiter, now, acquire_log, n_sleeps, limiters, n_limiters, tokens0,
                   pipelines, ingestion>>

\* now = time.time(); self.tokens = min(...); self.last_update = now
AcquireRefill(w) ==
    /\ thread[w].pc = "a_refill"
    /\ limiter' = [limiter EXCEPT !.tokens = Refilled(limiter, now),
                                  !.last_update = now]
    /\ thread' = [thread EXCEPT ![w].pc = "a_check"]
    /\ UNCHANGED <<now, acquire_log, n_sleeps, lock, limiters, n_limiters, tokens0,
                   pipelines, ingestion>>

\* if self.tokens >= tokens:
AcquireCheck(w, tokens) ==
    /\ thread[w].pc = "a_check"
    /\ thread' = [thread EXCEPT ![w].pc = IF limiter.tokens >= tokens * Unit
                                          THEN "a_deduct" ELSE "a_refused"]
    /\ UNCHANGED <<limiter, now, acquire_log, n_sleeps, lock, limiters, n_limiters,
                   tokens0,
                   pipelines, ingestion>>

\* self.tokens -= tokens
AcquireDeduct(w, tokens) ==
    /\ thread[w].pc = "a_deduct"
    /\ limiter' = [limiter EXCEPT !.tokens = @ - tokens * Unit]
    /\ thread' = [thread EXCEPT ![w].pc = "a_granted"]
    /\ UNCHANGED <<now, acquire_log, n_sleeps, lock, limiters, n_limiters, tokens0,
                   pipelines, ingestion>>

\* return True / return False, leaving the with block
AcquireReturn(w) ==
    /\ thread[w].pc \in {"a_granted", "a_refused"}
    /\ lock' = [lock EXCEPT !["limiter"] = IF @ = w THEN Unlocked ELSE @]
    /\ thread' = [thread EXCEPT ![w].pc = "done",
                                ![w].ret = (thread[w].pc = "a_granted")]
    /\ UNCHANGED <<limiter, now, acquire_log, n_sleeps, limiters, n_limiters, tokens0,
                   pipelines, ingestion>>

\* one statement of acquire(1) on thread w
AcquireStep(w) ==
    \/ AcquireCall(w)
    \/ AcquireLock(w)
    \/ AcquireRefill(w)
    \/ AcquireCheck(w, 1)
    \/ AcquireDeduct(w, 1)
    \/ AcquireReturn(w)

(***************************************************************************)
(* Threads on the RateLimiterRegistry: get_limiter() statement by statement*)
(***************************************************************************)
\* the rate_limit a caller passes, as the settings give it
RateLimits == (0 - 1)..MaxRate

\* a registry that never finds a source
RegisteredNever(s) == FALSE

\* source in self.limiters
Registered(s) == limiters[s] # NoEntry

\* a thread calls get_limiter(source, rate_limit), as BaseETL.__init__ does
GetLimiterCall(w, source, rate_limit) ==
    /\ thread[w].pc = "idle"
    /\ thread' = [thread EXCEPT ![w] = [NoThread EXCEPT !.pc = "g_enter",
                                                        !.source = source,
                                                        !.rate_limit = rate_limit]]
    /\ UNCHANGED <<limiter, now, acquire_log, n_sleeps, lock, limiters, n_limiters,
                   tokens0, pipelines, ingestion>>

\* with self.lock:
GetLimiterLock(w) ==
    /\ thread[w].pc = "g_enter"
    /\ LockFree("registry")
    /\ lock' = [lock EXCEPT !["registry"] = w]
    /\ thread' = [thread EXCEPT ![w].pc = "g_test"]
    /\ UNCHANGED <<limiter, now, acquire_log, n_sleeps, limiters, n_limiters, tokens0,
                   pipelines, ingestion>>

\* if source not in self.limiters:
GetLimiterTest(w) ==
    /\ thread[w].pc = "g_test"
    /\ thread' = [thread EXCEPT ![w].pc = IF Registered(thread[w].source)
                                          THEN "g_return" ELSE "g_new"]
    /\ UNCHANGED <<limiter, now, acquire_log, n_sleeps, lock, limiters, n_limiters,
                   tokens0, pipelines, ingestion>>

\* self.limiters[source] = RateLimiter(rate_limit)
GetLimiterNew(w) ==
    /\ thread[w].pc = "g_new"
    /\ n_limiters' = n_limiters + 1
    /\ limiters' = [limiters EXCEPT ![thread[w].source] =
                      [id |-> n_limiters + 1,
                       limiter |-> RateLimiterInit(thread[w].rate_limit, now)]]
    /\ thread' = [thread EXCEPT ![w].pc = "g_return", ![w].new = n_limiters + 1]
    /\ UNCHANGED <<limiter, now, acquire_log, n_sleeps, lock, tokens0, pipelines, ingestion>>

\* return self.limiters[source], leaving the with block
GetLimiterReturn(w) ==
    /\ thread[w].pc = "g_return"
    /\ lock' = [lock EXCEPT !["registry"] = IF @ = w THEN Unlocked ELSE @]
    /\ thread' = [thread EXCEPT ![w].pc = "got",
                                ![w].ret = limiters[thread[w].source].id]
    /\ UNCHANGED <<limiter, now, acquire_log, n_sleeps, limiters, n_limiters, tokens0,
                   pipelines, ingestion>>

\* one statement of get_limiter on thread w
GetLimiterStep(w) ==
    \/ \E s \in SourceSet, r \in RateLimits : GetLimiterCall(w, s, r)
    \/ GetLimiterLock(w)
    \/ GetLimiterTest(w)
    \/ GetLimiterNew(w)
    \/ GetLimiterReturn(w)

(***************************************************************************)
(* Worker threads that call transform and the loads with their data.       *)
(***************************************************************************)
\* a worker with no data
NoIngest == [pc |-> "idle", source |-> None, raw_data |-> <<>>,
             normalized_data |-> <<>>, staged_raw |-> 0, at |-> 0, ret |-> "none"]

\* etl.transform(raw_data), called on its own
CallTransform(w) ==
    /\ ingest[w].pc = "extracted"
    /\ ingest' = [ingest EXCEPT
                    ![w].normalized_data = Transform(ingest[w].source,
                                                     ingest[w].raw_data, utcnow),
                    ![w].pc = "transformed"]
    /\ UNCHANGED <<coins, raw_tables, coin_seq, n_ingests, pool, utcnow, pipelines, bucket>>

(***************************************************************************)
(* An attempt with its data: load_raw, transform and load_normalized in    *)
(* one transaction, against the tables raw_<source> and coins.             *)
(***************************************************************************)
\* an attempt up to the exit of its with block: extract() has returned
\* raw_data, load_raw has added the raw records to the session, transform and
\* load_normalized have built and executed the upsert statement
AttemptBody(w, s, raw_data) ==
    /\ ingest[w].pc \in {"idle", "succeeded", "failed"}
    \* workers are taken in order: no lower worker has never been used
    /\ \A v \in Workers : v < w => ingest[v].pc # "idle"
    /\ n_ingests < MaxIngests
    /\ n_ingests' = n_ingests + 1
    /\ pool' = pool
    /\ LET normalized_data == Transform(s, raw_data, utcnow)
       IN ingest' = [ingest EXCEPT ![w] =
                       [pc |-> "staged",
                        source |-> s, raw_data |-> raw_data,
                        normalized_data |-> normalized_data,
                        staged_raw |-> Len(raw_data), at |-> utcnow,
                        ret |-> "none"]]
    /\ utcnow' = utcnow + 1
    /\ UNCHANGED <<coins, raw_tables, coin_seq, pipelines, bucket>>

\* load_normalized(db, normalized_data) once more, in a transaction of its own
LoadAgain(w) ==
    /\ ingest[w].pc = "succeeded"
    /\ n_ingests < MaxIngests
    /\ n_ingests' = n_ingests + 1
    /\ pool' = pool
    /\ ingest' = [ingest EXCEPT ![w].staged_raw = 0, ![w].raw_data = <<>>,
                                ![w].at = utcnow, ![w].pc = "staged",
                                ![w].ret = "none"]
    /\ utcnow' = utcnow + 1
    /\ UNCHANGED <<coins, raw_tables, coin_seq, pipelines, bucket>>

\* the end of the with block: the commit of the raw records and of the
\* upsert, or the rollback when the statement or the flush has failed
CommitLoad(w) ==
    /\ ingest[w].pc = "staged"
    /\ IF RawRejected(ingest[w].raw_data) \/ BatchRejected(ingest[w].normalized_data)
       THEN /\ ingest' = [ingest EXCEPT ![w].pc = "failed", ![w].ret = "false"]
            /\ UNCHANGED <<coins, raw_tables, coin_seq>>
       ELSE LET tbl == UpsertAll([rows |-> coins, seq |-> coin_seq],
                                 ingest[w].normalized_data, ingest[w].at)
            IN /\ coins' = tbl.rows
               /\ coin_seq' = tbl.seq
               /\ raw_tables' = [raw_tables EXCEPT ![ingest[w].source] =
                                    @ + ingest[w].staged_raw]
               /\ ingest' = [ingest EXCEPT ![w].pc = "succeeded", ![w].ret = "true"]
    /\ UNCHANGED <<n_ingests, pool, utcnow, pipelines, bucket>>

\* one step of an attempt of worker w
IngestStep(w) ==
    \/ \E s \in SourceSet, raw_data \in Batches : AttemptBody(w, s, raw_data)
    \/ LoadAgain(w)
    \/ CommitLoad(w)

(***************************************************************************)
(* run_all_sources(parallel=True) on a registry of any size: the tasks of  *)
(* the ThreadPoolExecutor and its worker threads.  A task is one call of   *)
(* run_single_source: the retry loop of run() with the wait on the         *)
(* source's limiter, the attempt and the backoff sleep.                    *)
(***************************************************************************)
\* ThreadPoolExecutor(max_workers=3)
max_workers == 3

\* a pool with a worker thread for every source
PoolWorkersPerSource == 1..MaxSources

\* the worker threads the executor may start
PoolWorkers == 1..max_workers

\* a task before executor.submit
NoTask == [pc |-> "new", attempt |-> 0, ret |-> "none"]

\* the tasks a worker thread is running
PoolRunning == {t \in 1..pool.n : pool.task[t].pc \in {"wait", "attempt", "sleep"}}

\* the worker thread that runs task t
WorkerOf(t) == {w \in DOMAIN pool.worker : pool.worker[w] = t}

\* executor.submit(self.run_single_source, source) for the next source of the
\* registry: the work item is queued
PoolSubmit ==
    /\ pool.submitted < pool.n
    /\ pool' = [pool EXCEPT !.submitted = @ + 1,
                            !.queue = Append(@, pool.submitted + 1),
                            !.task[pool.submitted + 1].pc = "queued"]
    /\ UNCHANGED <<pipelines, bucket, coins, raw_tables, coin_seq, ingest, n_ingests,
                   utcnow>>

\* a worker thread without a task takes the oldest work item and enters run();
\* of the threads without a task, the first is taken
PoolTake(w) ==
    /\ pool.worker[w] = 0
    /\ \A v \in DOMAIN pool.worker : v < w => pool.worker[v] # 0
    /\ pool.queue # <<>>
    /\ pool' = [pool EXCEPT !.worker[w] = Head(pool.queue),
                            !.queue = Tail(@),
                            !.task[Head(pool.queue)].pc = "wait"]
    /\ UNCHANGED <<pipelines, bucket, coins, raw_tables, coin_seq, ingest, n_ingests,
                   utcnow>>

\* run() has returned ret, its local attempt is gone: the future is set and the
\* worker thread is free
PoolFinished(t, ret) ==
    [pool EXCEPT !.task[t].pc = "done", !.task[t].ret = ret, !.task[t].attempt = 0,
                 !.worker = [w \in DOMAIN @ |-> IF @[w] = t THEN 0 ELSE @[w]]]

\* one step of the run() of task t on its worker thread: the limiter grants the
\* token, the attempt succeeds or fails, the backoff sleep ends
PoolTaskStep(t) ==
    /\ t \in PoolRunning
    /\ \/ /\ pool.task[t].pc = "wait"
          /\ pool' = [pool EXCEPT !.task[t].pc = "attempt"]
       \/ /\ pool.task[t].pc = "attempt"
          /\ \/ pool' = PoolFinished(t, "true")
             \/ /\ pool.task[t].attempt + 1 < DefaultMaxRetries
                /\ pool' = [pool EXCEPT !.task[t].attempt = @ + 1,
                                        !.task[t].pc = "sleep"]
             \/ /\ pool.task[t].attempt + 1 >= DefaultMaxRetries
                /\ pool' = PoolFinished(t, "false")
       \/ /\ pool.task[t].pc = "sleep"
          /\ pool' = [pool EXCEPT !.task[t].pc = "wait"]
    /\ UNCHANGED <<pipelines, bucket, coins, raw_tables, coin_seq, ingest, n_ingests,
                   utcnow>>

\* the as_completed loop has seen every future and the with block is left
PoolCollect ==
    /\ ~pool.returned
    /\ pool.submitted = pool.n
    /\ \A t \in 1..pool.n : pool.task[t].pc = "done"
    /\ pool' = [pool EXCEPT !.returned = TRUE]
    /\ UNCHANGED <<pipelines, bucket, coins, raw_tables, coin_seq, ingest, n_ingests,
                   utcnow>>


(***************************************************************************)
(* Threads in RateLimiter.wait on one limiter while time passes.  acquire  *)
(* reads the clock only as now - last_update, and a bucket is full after a *)
(* minute whatever it held: times are counted from the last acquire, up to *)
(* a minute.  acquire is one step here, its lock being held for the call.  *)
(***************************************************************************)
\* the threads that call wait on the limiter: one, and one to overtake it
Waiters == {1, 2}

\* a thread that is in no call of wait
NoWaiter == [pc |-> "idle", tokens |-> 0]

\* how far the clock advances in one step: a quarter or half a minute
Naps == {Unit \div 4, Unit \div 2}

\* the threads inside wait(tokens)
Waiting == {w \in Waiters : thread[w].pc \in {"polling", "sleeping"}}

\* wait(tokens) is called, with no more tokens than the bucket can hold
WaitCall(w, tokens) ==
    /\ thread[w].pc \in {"idle", "done"}
    /\ tokens <= limiter.rate_limit
    /\ thread' = [thread EXCEPT ![w] = [pc |-> "polling", tokens |-> tokens]]
    /\ UNCHANGED <<limiter, now, acquire_log, n_sleeps, lock, limiters, n_limiters,
                   tokens0, pipelines, ingestion>>

\* while not self.acquire(tokens): time.sleep(0.1) - one poll: acquire returns
\* True and wait returns, or acquire returns False and the thread sleeps
WaitPoll(w) ==
    /\ thread[w].pc = "polling"
    /\ limiter' = [AfterAcquire(limiter, now, thread[w].tokens) EXCEPT !.last_update = 0]
    /\ now' = 0
    /\ thread' = [thread EXCEPT ![w].pc =
                    IF Enough(Refilled(limiter, now), thread[w].tokens)
                    THEN "done" ELSE "sleeping"]
    /\ UNCHANGED <<acquire_log, n_sleeps, lock, limiters, n_limiters, tokens0,
                   pipelines, ingestion>>

\* time passes: the threads in time.sleep(0.1) wake up
Tick(d) ==
    /\ now' = Min(now + d, limiter.last_update + Unit)
    /\ thread' = [w \in Waiters |->
                    IF thread[w].pc = "sleeping" THEN [thread[w] EXCEPT !.pc = "polling"]
                    ELSE thread[w]]
    /\ UNCHANGED <<limiter, acquire_log, n_sleeps, lock, limiters, n_limiters,
                   tokens0, pipelines, ingestion>>


(***************************************************************************)
(* The API process: lifespan, the scheduler's job, POST /etl/run, /health. *)
(***************************************************************************)
\* what POST /etl/run takes as source: nothing, a registered or another name
TriggerArgs == {None, "unknown"} \cup SourceSet

\* lifespan up to scheduler.start(): the initial run_all_sources(parallel=True)
\* if enable_etl_on_startup, on the event-loop thread
Startup ==
    /\ server = "off"
    /\ \/ /\ RunAllStart("api", TRUE)
          /\ server' = "starting"
       \/ /\ server' = "serving"
          /\ UNCHANGED <<checkpoints, etl_runs, next_uuid, run, n_inst, n_inv,
                         inv_log, env, call, n_calls, bucket, ingestion>>

\* scheduler.start(), once the initial run has returned
StartScheduler ==
    /\ server = "starting"
    /\ call["api"].state # "active"
    /\ server' = "serving"
    /\ UNCHANGED <<checkpoints, etl_runs, next_uuid, run, n_inst, n_inv, inv_log,
                   env, call, n_calls, bucket, ingestion>>

\* run_scheduled_etl, on the scheduler's thread; one instance of the job at a time
ScheduledEtl ==
    /\ server = "serving"
    /\ RunAllStart("scheduler", TRUE)
    /\ server' = server

\* trigger_etl(source), on the event-loop thread, which it blocks until it returns
TriggerEtl(source) ==
    /\ server = "serving"
    /\ IF source = None
       THEN RunAllStart("api", TRUE)
       ELSE RunSingleStart("api", source)
    /\ server' = server

\* health_check, on the event-loop thread
HealthCheck ==
    /\ server = "serving"
    /\ GetStatus("api")
    /\ server' = server

(***************************************************************************)
(* Specifications.                                                         *)
(***************************************************************************)
InitDb ==
    /\ checkpoints = [s \in SourceSet |-> NoRow]
    /\ etl_runs = {}
    /\ next_uuid = 1

\* empty tables, no attempt with data
InitTables ==
    /\ coins = {}
    /\ raw_tables = [s \in SourceSet |-> 0]
    /\ coin_seq = 0
    /\ utcnow = 0

InitIngestion ==
    /\ InitTables
    /\ ingest = [w \in Workers |-> NoIngest]
    /\ n_ingests = 0
    /\ pool = NoPool

\* no worker thread, an empty registry
InitShared ==
    /\ lock = [l \in Locks |-> Unlocked]
    /\ thread = [w \in Workers |-> NoThread]
    /\ limiters = [s \in SourceSet |-> NoEntry]
    /\ n_limiters = 0
    /\ tokens0 = 0

\* no limiter under observation
InitBucket ==
    /\ limiter = NoLimiter
    /\ now = 0
    /\ acquire_log = <<>>
    /\ n_sleeps = 0
    /\ InitShared
    /\ InitIngestion

InitRun ==
    /\ InitDb
    /\ run = [r \in Slots |-> NoPipeline]
    /\ n_inst = 0
    /\ n_inv = 0
    /\ inv_log = {}
    /\ env = [extract |-> [s \in SourceSet |-> "any"], fault_budget |-> Unlimited,
              faults_left |-> Unlimited,
              data |-> {<<>>}]
    /\ call = [c \in Threads |-> NoCall]
    /\ n_calls = 0
    /\ server = "off"
    /\ InitBucket

\* the backoff_factor a direct caller passes to run()
BackoffFactors == {DefaultBackoffFactor, DefaultBackoffFactor + 1}

\* a fresh pipeline object per run(), as ETLService.run_single_source makes it
NextRun ==
    \/ \E s \in SourceSet : DirectConstruct(s)
    \/ \E n \in 0..MaxRetries, b \in BackoffFactors : DirectRun(n, b)
    \/ \E r \in DirectSlots : RunStep(r)

SpecRun == InitRun /\ [][NextRun]_vars

\* run(max_retries) with the default backoff_factor, on a fresh object
NextRetry ==
    \/ \E s \in SourceSet : DirectConstruct(s)
    \/ \E n \in 0..MaxRetries : DirectRun(n, DefaultBackoffFactor)
    \/ \E r \in DirectSlots : RunStep(r)

\* every step of a run() that can be taken is taken in the end: extract, the
\* loads, the wait on the limiter and the sleep all return
SpecRetry ==
    InitRun /\ [][NextRetry]_vars /\ WF_vars(\E r \in DirectSlots : RunStep(r))

\* the max_retries a caller passes that leave no room, or room for one attempt
FewRetries == {0 - 1, 0, 1}

\* run(max_retries) with max_retries around 0, on a fresh object
NextZero ==
    \/ \E s \in SourceSet : DirectConstruct(s)
    \/ \E n \in FewRetries : DirectRun(n, DefaultBackoffFactor)
    \/ \E r \in DirectSlots : RunStep(r)

SpecZero == InitRun /\ [][NextZero]_vars


\* run_all_sources(parallel=True) is called on a registry of 1..MaxSources sources
InitPool ==
    /\ InitDb
    /\ run = [r \in Slots |-> NoPipeline]
    /\ n_inst = 0
    /\ n_inv = 0
    /\ inv_log = {}
    /\ env = [extract |-> [s \in SourceSet |-> "any"], fault_budget |-> Unlimited,
              faults_left |-> Unlimited, data |-> {<<>>}]
    /\ call = [c \in Threads |-> NoCall]
    /\ n_calls = 0
    /\ server = "off"
    /\ limiter = NoLimiter
    /\ now = 0
    /\ acquire_log = <<>>
    /\ n_sleeps = 0
    /\ InitShared
    /\ InitTables
    /\ ingest = [w \in Workers |-> NoIngest]
    /\ n_ingests = 0
    /\ \E n \in 1..MaxSources :
          pool = [n |-> n, submitted |-> 0, queue |-> <<>>,
                  worker |-> [w \in PoolWorkers |-> 0],
                  task |-> [t \in 1..n |-> NoTask],
                  returned |-> FALSE]

NextPool ==
    \/ PoolSubmit
    \/ \E w \in PoolWorkers : PoolTake(w)
    \/ \E t \in 1..MaxSources : PoolTaskStep(t)
    \/ PoolCollect

SpecPool == InitPool /\ [][NextPool]_vars


\* what extract() returns in the runs with data: one coin, one coin twice, a
\* coin and an item with an empty symbol, an item whose id is None
RunBatches ==
    {<<Sample({<<"a">>}, {<<"b">>}, {1})>>,
     <<Sample({<<"a">>}, {<<"b">>}, {0}), Sample({<<"a">>}, {<<"b">>}, {1})>>,
     <<Sample({<<"a">>}, {<<"b">>}, {1}), Sample({<<"c">>}, {<<>>}, {1})>>,
     <<Sample(Null, {<<"b">>}, {1})>>}

\* the pipeline object of an earlier run() of coinpaprika that committed its
\* first attempt with one coin
FirstRun ==
    [NoPipeline EXCEPT !.source_name = "coinpaprika", !.run_id = 1, !.inst = 1,
                       !.inv = 1, !.uses = 1, !.max_retries = DefaultMaxRetries,
                       !.backoff_factor = DefaultBackoffFactor,
                       !.records_processed = 1, !.extract_calls = 1,
                       !.extract_ok = TRUE, !.tokens_acquired = 1,
                       !.ret = "true", !.pc = "done"]

\* the rows that run has committed at time 1
FirstCoins ==
    UpsertAll([rows |-> {}, seq |-> 0],
              Transform("coinpaprika", <<Sample({<<"a">>}, {<<"b">>}, {1})>>, 1), 1)

\* the state that earlier run has left: its coin, raw row, Checkpoint and run
\* record are committed; from here on the store may fail at any step and the
\* sources may fail or return any of the batches
InitAtomic ==
    /\ checkpoints = [s \in SourceSet |->
                        IF s = "coinpaprika"
                        THEN UpdateCheckpoint(FirstRun, NoRow, "success", None, 1)
                        ELSE NoRow]
    /\ etl_runs = {CreateRunRecord(FirstRun, "success", None)}
    /\ next_uuid = 2
    /\ run = [r \in Slots |-> IF r \in DirectSlots THEN FirstRun ELSE NoPipeline]
    /\ n_inst = 1
    /\ n_inv = 1
    /\ inv_log = {[inv |-> 1, inst |-> 1, run_id |-> 1]}
    /\ env = [extract |-> [s \in SourceSet |-> "any"], fault_budget |-> Unlimited,
              faults_left |-> Unlimited, data |-> RunBatches]
    /\ call = [c \in Threads |-> NoCall]
    /\ n_calls = 0
    /\ server = "off"
    /\ limiter = NoLimiter
    /\ now = 0
    /\ acquire_log = <<>>
    /\ n_sleeps = 0
    /\ InitShared
    /\ coins = FirstCoins.rows
    /\ coin_seq = FirstCoins.seq
    /\ raw_tables = [s \in SourceSet |-> IF s = "coinpaprika" THEN 1 ELSE 0]
    /\ utcnow = 1
    /\ ingest = [w \in Workers |-> NoIngest]
    /\ n_ingests = 0
    /\ pool = NoPool

\* run() with its defaults on a fresh object, as run_single_source calls it
NextAtomic ==
    \/ \E s \in SourceSet : DirectConstruct(s)
    \/ DirectRun(DefaultMaxRetries, DefaultBackoffFactor)
    \/ \E r \in DirectSlots : RunStep(r)

\* runs of fresh pipeline objects with their data, one after another
SpecAtomic == InitAtomic /\ [][NextAtomic]_vars

\* a caller that may also call run() again on the same object
NextReuse ==
    \/ NextRun
    \/ \E n \in 0..MaxRetries, b \in BackoffFactors : DirectRerun(n, b)

SpecReuse == InitRun /\ [][NextReuse]_vars

\* extract() of a source of the running service: it works, or it is down
InitService ==
    /\ InitDb
    /\ run = [r \in Slots |-> NoPipeline]
    /\ n_inst = 0
    /\ n_inv = 0
    /\ inv_log = {}
    /\ \E x \in [SourceSet -> {"ok", "fail"}], b \in {0, MaxFaults} :
          /\ Cardinality({s \in SourceSet : x[s] = "fail"}) <= MaxDown
          /\ env = [extract |-> x, fault_budget |-> b, faults_left |-> b,
              data |-> {<<>>}]
    /\ call = [c \in Threads |-> NoCall]
    /\ n_calls = 0
    /\ server = "off"
    /\ InitBucket

ServiceThreads == {"api", "scheduler"}

\* the API process with its scheduler
Next ==
    \/ Startup
    \/ StartScheduler
    \/ ScheduledEtl
    \/ \E a \in TriggerArgs : TriggerEtl(a)
    \/ HealthCheck
    \/ \E c \in ServiceThreads : RunAllCollect(c)
    \/ RunSingleReturn("api")
    \/ \E c \in ServiceThreads, s \in SourceSet : RunStep(<<c, s>>)

Spec == InitService /\ [][Next]_vars

\* a caller of ETLService on one thread
NextLibrary ==
    \/ GetStatus("direct") /\ server' = server
    \/ \E s \in SourceSet \cup {"unknown"} : RunSingleStart("direct", s) /\ server' = server
    \/ \E p \in BOOLEAN : RunAllStart("direct", p) /\ server' = server
    \/ RunSingleReturn("direct")
    \/ RunAllCollect("direct")
    \/ RunAllSeqNext("direct")
    \/ \E s \in SourceSet : RunStep(<<"direct", s>>)

SpecLibrary == InitService /\ [][NextLibrary]_vars

\* run_single_source called on the thread of the API and on the thread of the
\* scheduler, for any sources, the same one included
NextRace ==
    \/ \E c \in ServiceThreads, s \in SourceSet : RunSingleStart(c, s) /\ server' = server
    \/ \E c \in ServiceThreads : RunSingleReturn(c)
    \/ \E c \in ServiceThreads, s \in SourceSet : RunStep(<<c, s>>)

SpecRace == InitService /\ [][NextRace]_vars

\* a limiter just constructed, and nothing else running
InitLimiter ==
    /\ InitDb
    /\ run = [r \in Slots |-> NoPipeline]
    /\ n_inst = 0
    /\ n_inv = 0
    /\ inv_log = {}
    /\ env = [extract |-> [s \in SourceSet |-> "ok"], fault_budget |-> 0,
              faults_left |-> 0,
              data |-> {<<>>}]
    /\ call = [c \in Threads |-> NoCall]
    /\ n_calls = 0
    /\ server = "off"
    /\ now = 0
    /\ \E rate_limit \in 1..MaxRate : limiter = RateLimiterInit(rate_limit, now)
    /\ acquire_log = <<>>
    /\ n_sleeps = 0
    /\ InitShared
    /\ InitIngestion

\* callers of acquire() on one limiter while time passes
NextLimiter ==
    \/ Acquire(1)
    \/ \E d \in Sleeps : Sleep(d)

SpecLimiter == InitLimiter /\ [][NextLimiter]_vars

\* the tokens a call asks for: the default of one, or two
Requests == {1, 2}

\* callers of acquire(n), n >= 1, on one limiter while time passes
NextTokens ==
    \/ \E tokens \in Requests : Acquire(tokens)
    \/ \E d \in Sleeps : Sleep(d)

SpecTokens == InitLimiter /\ [][NextTokens]_vars

\* a limiter with rate_limit > 0 at any fill, and no thread in wait yet
InitWait ==
    /\ InitDb
    /\ run = [r \in Slots |-> NoPipeline]
    /\ n_inst = 0
    /\ n_inv = 0
    /\ inv_log = {}
    /\ env = [extract |-> [s \in SourceSet |-> "ok"], fault_budget |-> 0,
              faults_left |-> 0, data |-> {<<>>}]
    /\ call = [c \in Threads |-> NoCall]
    /\ n_calls = 0
    /\ server = "off"
    /\ now = 0
    /\ \E rate_limit \in 1..MaxRate, halves \in 0..(2 * MaxRate) :
          /\ halves <= 2 * rate_limit
          /\ tokens0 = halves * (Unit \div 2)
          /\ limiter = [RateLimiterInit(rate_limit, now) EXCEPT !.tokens = tokens0]
    /\ acquire_log = <<>>
    /\ n_sleeps = 0
    /\ lock = [l \in Locks |-> Unlocked]
    /\ thread = [w \in Waiters |-> NoWaiter]
    /\ limiters = [s \in SourceSet |-> NoEntry]
    /\ n_limiters = 0
    /\ InitIngestion

NextWait ==
    \/ \E w \in Waiters, tokens \in Requests : WaitCall(w, tokens)
    \/ \E w \in Waiters : WaitPoll(w)
    \/ \E d \in Naps : Tick(d)

\* every thread in wait polls again and again, and time advances
SpecWait ==
    /\ InitWait
    /\ [][NextWait]_vars
    /\ \A w \in Waiters : WF_vars(WaitPoll(w))
    /\ WF_vars(\E d \in Naps : Tick(d))

\* a limiter that holds some tokens, refilled up to now, and threads about to
\* call acquire
InitAcquire ==
    /\ InitDb
    /\ run = [r \in Slots |-> NoPipeline]
    /\ n_inst = 0
    /\ n_inv = 0
    /\ inv_log = {}
    /\ env = [extract |-> [s \in SourceSet |-> "ok"], fault_budget |-> 0,
              faults_left |-> 0,
              data |-> {<<>>}]
    /\ call = [c \in Threads |-> NoCall]
    /\ n_calls = 0
    /\ server = "off"
    /\ now = 0
    /\ \E rate_limit \in 1..MaxRate, halves \in 0..(2 * MaxRate) :
          /\ halves <= 2 * rate_limit
          /\ tokens0 = halves * (Unit \div 2)
          /\ limiter = [RateLimiterInit(rate_limit, now) EXCEPT !.tokens = tokens0]
    /\ acquire_log = <<>>
    /\ n_sleeps = 0
    /\ lock = [l \in Locks |-> Unlocked]
    /\ thread = [w \in Workers |-> NoThread]
    /\ limiters = [s \in SourceSet |-> NoEntry]
    /\ n_limiters = 0
    /\ InitIngestion

\* threads in acquire(1) on one limiter, no time passing
NextAcquire == \E w \in Workers : AcquireStep(w)

SpecAcquire == InitAcquire /\ [][NextAcquire]_vars

\* threads that construct pipelines, each calling get_limiter once
NextRegistry == \E w \in Workers : GetLimiterStep(w)

SpecRegistry == InitRun /\ [][NextRegistry]_vars

\* everything but the data at rest
InitNoData ==
    /\ InitDb
    /\ run = [r \in Slots |-> NoPipeline]
    /\ n_inst = 0
    /\ n_inv = 0
    /\ inv_log = {}
    /\ env = [extract |-> [s \in SourceSet |-> "ok"], fault_budget |-> 0,
              faults_left |-> 0,
              data |-> {<<>>}]
    /\ call = [c \in Threads |-> NoCall]
    /\ n_calls = 0
    /\ server = "off"
    /\ limiter = NoLimiter
    /\ now = 0
    /\ acquire_log = <<>>
    /\ n_sleeps = 0
    /\ InitShared

\* one item of one source, as extract() returned it
InitTransform ==
    /\ InitNoData
    /\ InitTables
    /\ n_ingests = 1
    /\ pool = NoPool
    /\ \E s \in SourceSet, item \in Items :
          ingest = [w \in Workers |->
                      IF w = 1
                      THEN [NoIngest EXCEPT !.pc = "extracted", !.source = s,
                                            !.raw_data = <<item>>]
                      ELSE NoIngest]

NextTransform == CallTransform(1)

SpecTransform == InitTransform /\ [][NextTransform]_vars

\* the tables after an earlier attempt of coinpaprika has committed one coin
Stored ==
    UpsertAll([rows |-> {}, seq |-> 0],
              Transform("coinpaprika", <<Sample({<<"a">>}, {<<"b">>}, {0})>>, 0), 0)

\* empty tables, or the tables an earlier attempt has left
InitStored ==
    \/ InitTables
    \/ /\ coins = Stored.rows
       /\ coin_seq = Stored.seq
       /\ raw_tables = [s \in SourceSet |-> IF s = "coinpaprika" THEN 1 ELSE 0]
       /\ utcnow = 1

InitIngest ==
    /\ InitNoData
    /\ InitStored
    /\ ingest = [w \in Workers |-> NoIngest]
    /\ n_ingests = 0
    /\ pool = NoPool

\* attempts of the sources, one after another
NextUpsert == IngestStep(1)

SpecUpsert == InitIngest /\ [][NextUpsert]_vars

\* attempts of the sources on concurrent workers
NextIngest == \E w \in Workers : IngestStep(w)

SpecIngest == InitIngest /\ [][NextIngest]_vars

(***************************************************************************)
(* Claims about load_raw, transform and load_normalized against the        *)
(* tables, checked under SpecUpsert and SpecIngest.                        *)
(***************************************************************************)
\* the row holds what the record would set
SameFields(row, rec) ==
    /\ row.name = rec.name
    /\ row.symbol = rec.symbol
    /\ row.current_price = rec.current_price
    /\ row.market_cap = rec.market_cap
    /\ row.volume_24h = rec.volume_24h
    /\ row.price_change_24h = rec.price_change_24h
    /\ row.rank = rec.rank
    /\ row.last_updated = rec.last_updated

\* C15: when load_normalized commits a record that the row of its
\* (coin_id, source) already holds unchanged, the key still has exactly one
\* row, whose updated_at is the later time of this load and whose other
\* fields, created_at and id included, are what they were.
IdempotentUpsert ==
    [][\A w \in Workers :
          (ingest[w].pc = "staged" /\ ingest'[w].pc = "succeeded") =>
              \A i \in 1..Len(ingest[w].normalized_data) :
                  \A x \in Conflicting(coins, ingest[w].normalized_data[i]) :
                      SameFields(x, ingest[w].normalized_data[i]) =>
                          /\ Conflicting(coins', ingest[w].normalized_data[i])
                                = {[x EXCEPT !.updated_at = ingest[w].at]}
                          /\ ingest[w].at > x.updated_at]_vars

\* C15 witness: load_normalized has been applied a second time with the same
\* records, and the row of one of them carries the time of that second load,
\* later than its created_at.
IdempotentUpsertWitness ==
    \E w \in Workers :
        /\ ingest[w].pc = "succeeded"
        /\ ingest[w].staged_raw = 0
        /\ \E i \in 1..Len(ingest[w].normalized_data) :
              \E x \in Conflicting(coins, ingest[w].normalized_data[i]) :
                  /\ SameFields(x, ingest[w].normalized_data[i])
                  /\ x.updated_at = ingest[w].at
                  /\ x.updated_at > x.created_at

\* C16: in every state coins holds at most one row per (coin_id, source) and
\* per id, and every record of a committed load has exactly one row, that of
\* its own coin_id and source.
UniqueCoinSource ==
    /\ \A x, y \in coins :
          (x.coin_id = y.coin_id /\ x.source = y.source) \/ x.id = y.id => x = y
    /\ \A w \in Workers :
          ingest[w].pc = "succeeded" =>
              \A i \in 1..Len(ingest[w].normalized_data) :
                  Cardinality(Conflicting(coins, ingest[w].normalized_data[i])) = 1

\* C16 witness: one coin_id has a row under each of two sources, and one of
\* them has been updated by a second ingestion.
UniqueCoinSourceWitness ==
    \E x, y \in coins :
        /\ x.coin_id = y.coin_id
        /\ x.source # y.source
        /\ x.updated_at > x.created_at

\* C17: every attempt that has ended has succeeded, with the raw records of
\* all its N items and a row for each of its V valid records persisted.
PartialItemTolerance ==
    \A w \in Workers :
        (ingest[w].pc \in {"succeeded", "failed"} /\ ingest[w].staged_raw > 0) =>
            /\ ingest[w].ret = "true"
            /\ raw_tables[ingest[w].source] >= Len(ingest[w].raw_data)
            /\ \A i \in 1..Len(ingest[w].normalized_data) :
                  Conflicting(coins, ingest[w].normalized_data[i]) # {}

(***************************************************************************)
(* Claims about BaseETL.run, checked under SpecRun and SpecReuse.          *)
(***************************************************************************)
\* RunRecords in the committed history that carry run_id id
RecordsOf(id) == {x \in etl_runs : x.run_id = id}

\* C1: run() never raises past its boundary. Whatever extract, the loads, the
\* checkpoint and run-record writes and the commits do at any attempt, no
\* exception leaves run(); a run() that has ended has returned true or false; it
\* never makes more attempts than max_retries; and a run() that has not ended can
\* always take its next step.
RunNeverRaises ==
    \A r \in Slots :
        /\ run[r].pc # "raised"
        /\ run[r].ret # "raised"
        /\ run[r].pc = "done" => run[r].ret \in {"true", "false"}
        /\ run[r].attempt <= run[r].max_retries
        /\ InProgress(r) => ENABLED RunStep(r)

\* C1, its case: a run() that returned false after failures of extract and of the
\* persistence layer in its attempts and a failure of its finalization
RunNeverRaisesWitness ==
    \E r \in Slots :
        /\ run[r].pc = "done" /\ run[r].ret = "false"
        /\ run[r].fin_error # None
        /\ run[r].attempt = 3
        /\ run[r].extract_ok /\ run[r].db_fault
        /\ run[r].last_exc \in ExtractErrors

\* C2: retry termination. A run(max_retries = N), N >= 1, whose every extract call
\* failed while the persistence layer worked has made exactly N attempts and N
\* extract calls and has returned false; the source's Checkpoint has
\* status=failure and the error of the last attempt; the history has no
\* RunRecord with status=success for its run_id.
RetryTermination ==
    \A r \in DirectSlots :
        (/\ run[r].pc = "done"
         /\ run[r].max_retries >= 1
         /\ ~run[r].db_fault
         /\ ~run[r].extract_ok)
        => /\ run[r].attempt = run[r].max_retries
           /\ run[r].extract_calls = run[r].max_retries
           /\ run[r].ret = "false"
           /\ checkpoints[run[r].source_name].status = "failure"
           /\ checkpoints[run[r].source_name].error_message = run[r].last_exc
           /\ \A x \in RecordsOf(run[r].run_id) : x.status # "success"

\* C2, its case: a run(max_retries = 3) of always-failing extracts has ended, the
\* last error differing from the first, on a source that had succeeded before
RetryTerminationWitness ==
    \E r \in DirectSlots :
        /\ run[r].pc = "done"
        /\ run[r].max_retries = 3
        /\ ~run[r].db_fault
        /\ ~run[r].extract_ok /\ run[r].extract_calls = 3
        /\ run[r].last_exc = "HTTPStatusError"
        /\ checkpoints[run[r].source_name].error_message = "HTTPStatusError"
        /\ \E x \in etl_runs : x.source = run[r].source_name /\ x.status = "success"

\* C7 as claimed: once run() has returned, the history holds exactly one
\* RunRecord with the run_id of that invocation.
ExactlyOneRunRecord ==
    \A r \in DirectSlots :
        run[r].pc = "done" => Cardinality(RecordsOf(run[r].run_id)) = 1

\* C7 as amended: once run() has returned, the history holds at most one
\* RunRecord with its run_id, whatever the number of attempts: exactly one when
\* run() returned true or its finalization committed; when its finalization
\* failed, none if this was the first run() of its pipeline object.
OneRunRecordUnlessFinalizationFailed ==
    \A r \in DirectSlots :
        run[r].pc = "done" =>
            /\ Cardinality(RecordsOf(run[r].run_id)) <= 1
            /\ (run[r].ret = "true" \/ run[r].fin_error = None)
                  => Cardinality(RecordsOf(run[r].run_id)) = 1
            /\ (run[r].fin_error # None /\ run[r].uses = 1)
                  => RecordsOf(run[r].run_id) = {}

\* C7, its case: run() has returned after three attempts and its finalization
\* has committed its one record
OneRunRecordWitness ==
    \E r \in DirectSlots :
        /\ run[r].pc = "done" /\ run[r].ret = "false"
        /\ run[r].attempt = 3
        /\ run[r].fin_error = None
        /\ \E x \in RecordsOf(run[r].run_id) : x.status = "failure"

\* C8 as claimed: two different invocations of run() never use the same run_id.
FreshRunIdPerInvocation ==
    \A x, y \in inv_log : x.inv # y.inv => x.run_id # y.run_id

\* C8 as amended: the run_id is drawn once per pipeline object, at construction.
\* Invocations on different pipeline objects use different run_ids, all attempts of
\* an invocation use one run_id, and invocations on the same pipeline object use
\* the same run_id.
RunIdPerPipeline ==
    \A x, y \in inv_log :
        /\ x.inst = y.inst <=> x.run_id = y.run_id
        /\ x.inv = y.inv => x.run_id = y.run_id

\* C8, its case: an object whose run() was invoked twice, both invocations having
\* used a run_id
RunIdPerPipelineWitness ==
    \E x, y \in inv_log : x.inv # y.inv /\ x.inst = y.inst

\* C9: a finalization that fails leaves the tables as they were and makes run()
\* return false. Every step of the finalization that does not commit it (its
\* staging, or its failure in the query or in the commit) leaves the Checkpoints
\* and the run history unchanged, and a failed finalization ends run() with false,
\* never with an exception.
FailedFinalizationChangesNothing ==
    [][\A r \in Slots :
        (/\ run[r].pc \in {"finalize", "fin_commit"}
         /\ run'[r] # run[r]
         /\ run'[r].fin_error # None \/ run'[r].pc = "fin_commit")
        => /\ checkpoints' = checkpoints
           /\ etl_runs' = etl_runs
           /\ run'[r].fin_error # None => run'[r].pc = "done" /\ run'[r].ret = "false"]_vars

\* C9, its case: run() has returned false after its finalization failed in the
\* commit, the source's Checkpoint still showing an earlier success
FailedFinalizationWitness ==
    \E r \in DirectSlots :
        /\ run[r].pc = "done" /\ run[r].ret = "false"
        /\ run[r].fin_error = DbError
        /\ ~run[r].extract_ok
        /\ run[r].attempt = 3
        /\ checkpoints[run[r].source_name].status = "success"
        /\ RecordsOf(run[r].run_id) = {}

(***************************************************************************)
(* Claims about ETLService, checked under SpecLibrary and Spec.            *)
(***************************************************************************)
\* C3: source isolation. With a working persistence layer and constructors, for
\* every source A whose extract fails on every call and every source B whose
\* extract succeeds on every call, run_all_sources(parallel=True) returns false
\* for A and true for B over every interleaving of their runs, B's Checkpoint
\* has status=success with no error message, and every RunRecord of B is a
\* success: A's retries and failure change nothing of B.
SourceIsolation ==
    \A c \in Threads :
        (/\ call[c].kind = "all"
         /\ call[c].parallel
         /\ call[c].state = "returned"
         /\ env.fault_budget = 0)
        => \A a, b \in SourceSet :
              (env.extract[a] = "fail" /\ env.extract[b] = "ok")
              => /\ call[c].results[a] = "false"
                 /\ call[c].results[b] = "true"
                 /\ checkpoints[b].status = "success"
                 /\ checkpoints[b].error_message = None
                 /\ \A x \in etl_runs : x.source = b => x.status = "success"

\* C3, its case: a parallel run_all_sources has returned false for a source that
\* is down, whose Checkpoint shows the failure, and true for the others
SourceIsolationWitness ==
    \E c \in Threads, a \in SourceSet :
        /\ call[c].kind = "all" /\ call[c].parallel /\ call[c].state = "returned"
        /\ env.fault_budget = 0
        /\ env.extract[a] = "fail"
        /\ call[c].results[a] = "false"
        /\ checkpoints[a].status = "failure"
        /\ checkpoints[a].error_message = DownError
        /\ \A b \in SourceSet \ {a} :
              call[c].results[b] = "true" /\ checkpoints[b].status = "success"

\* C4 as claimed: run_all_sources(parallel), for both values of parallel, never
\* ends with an exception; when it returns, the keys of its result are exactly
\* the registered sources, a source whose dispatch raised is recorded as false,
\* and none of its tasks is still running.
RunAllReturnsEverySource ==
    \A c \in Threads :
        call[c].kind = "all" =>
            /\ call[c].state # "raised"
            /\ call[c].state = "returned" =>
                  /\ DOMAIN call[c].results = SourceSet
                  /\ \A s \in call[c].ctor_raised : call[c].results[s] = "false"
                  /\ call[c].unfinished = 0

\* C5 as claimed: no call of run_single_source, run_all_sources or
\* get_etl_status ends with an exception.
EntryPointsNeverRaise ==
    \A c \in Threads : call[c].state # "raised"

\* C6 as claimed: at no time are two runs of the same source in progress.
OneRunPerSource ==
    \A s \in SourceSet :
        Cardinality({c \in Threads : InProgress(<<c, s>>)}) <= 1

\* the step commits the transaction of the run in slot r
Committing(r) ==
    /\ run[r].pc \in {"commit", "fin_commit"}
    /\ run'[r].pc = "done"
    /\ run'[r].fin_error = None

\* C28: at most one Checkpoint row per source. A transaction that inserts a
\* Checkpoint row commits only while the table holds no row of its source,
\* every other committing run updates the row that is there, a source has a
\* row once a run of it has committed, and no step removes a row.
OneCheckpointPerSource ==
    [][/\ \A s \in SourceSet : checkpoints[s] # NoRow => checkpoints'[s] # NoRow
       /\ \A r \in Slots :
             Committing(r) =>
                 /\ run[r].staged.ckpt_snap = NoRow =>
                       checkpoints[run[r].source_name] = NoRow
                 /\ checkpoints'[run[r].source_name] # NoRow
                 /\ \A s \in SourceSet \ {run[r].source_name} :
                       checkpoints'[s] = checkpoints[s]]_vars

\* C28 witness: two runs of one source began while it had no Checkpoint; one
\* has committed the row and the other has had its insert rejected
OneCheckpointPerSourceWitness ==
    \E s \in SourceSet :
        /\ checkpoints[s] # NoRow
        /\ \E c \in ServiceThreads :
              /\ run[<<c, s>>].last_error = IntegrityError
              /\ run[<<c, s>>].pc \in {"attempt", "commit", "done"}
              /\ run[<<c, s>>].attempt >= 1

\* the run_ids that pipeline objects have used or written so far
UsedRunIds ==
    {x.run_id : x \in etl_runs} \cup {x.run_id : x \in inv_log}
        \cup {run[r].run_id : r \in {x \in Slots : run[x].pc # "free"}}

\* C22: run_single_source of a source that is not registered returns false
\* and constructs no pipeline, draws no run_id, takes no token and writes no
\* Checkpoint and no RunRecord; run_single_source of a registered source
\* whose constructor returns runs a pipeline object constructed in that call,
\* on its first run(), with a run_id that no object had before, started_at
\* the time of the call and records_processed 0.
RunSingleFresh ==
    [][\A c \in Threads :
          (n_calls' = n_calls + 1 /\ call'[c].kind = "single" /\ call'[c] # call[c]) =>
              /\ call'[c].arg \notin SourceSet =>
                    /\ call'[c].state = "returned"
                    /\ call'[c].ret = "false"
                    /\ UNCHANGED <<run, n_inst, n_inv, next_uuid, checkpoints, etl_runs,
                                   tables, limiter, limiters, n_limiters>>
              /\ (call'[c].arg \in SourceSet /\ call'[c].state = "active") =>
                    LET self == run'[<<c, call'[c].arg>>]
                    IN /\ n_inst' = n_inst + 1
                       /\ self.inst = n_inst'
                       /\ self.source_name = call'[c].arg
                       /\ self.uses = 1
                       /\ self.run_id \notin UsedRunIds
                       /\ self.started_at = utcnow
                       /\ self.records_processed = 0
                       /\ self.attempt = 0
                       /\ self.tokens_acquired = 0]_vars

\* C22 witness: after a call for a registered source has run and returned, a
\* call for an unregistered source has returned false
RunSingleFreshWitness ==
    \E c \in Threads :
        /\ call[c].kind = "single"
        /\ call[c].arg \notin SourceSet
        /\ call[c].state = "returned"
        /\ call[c].ret = "false"
        /\ n_calls > 1
        /\ n_inst = 1
        /\ etl_runs # {}

(***************************************************************************)
(* Claims about RateLimiter, checked under SpecLimiter.                    *)
(***************************************************************************)
\* the acquire() calls that returned True
Successes == {i \in 1..Len(acquire_log) : acquire_log[i].ok}

\* the times at which an interval can begin or end
Instants == {0, now} \cup {acquire_log[i].t : i \in 1..Len(acquire_log)}

\* C10: token-bucket bound. For a limiter of capacity C that starts full, the
\* successful acquire(1) calls in any interval [t1, t2] number at most
\* C + (t2 - t1) * C / 60 (both sides taken in parts of a token); and with
\* rate_limit = 1 the first acquire succeeds and every further acquire less
\* than a second after it fails.
TokenBucketBound ==
    /\ \A t1, t2 \in Instants :
          t1 <= t2 =>
             Cardinality({i \in Successes :
                             t1 <= acquire_log[i].t /\ acquire_log[i].t <= t2}) * Unit
                <= limiter.rate_limit * Unit + (t2 - t1) * limiter.rate_limit
    /\ (limiter.rate_limit = 1 /\ acquire_log # <<>>) =>
          /\ acquire_log[1].ok
          /\ \A k \in 2..Len(acquire_log) :
                acquire_log[k].t - acquire_log[1].t < TicksPerSec
                   => ~acquire_log[k].ok

\* C10, its case: a limiter with rate_limit = 1 has granted the first acquire,
\* refused one within the same second, and granted one again after a refill
TokenBucketWitness ==
    /\ limiter.rate_limit = 1
    /\ Len(acquire_log) >= 3
    /\ acquire_log[1].ok
    /\ ~acquire_log[2].ok
    /\ acquire_log[2].t - acquire_log[1].t < TicksPerSec
    /\ \E k \in 3..Len(acquire_log) : acquire_log[k].ok

\* the acquire() call of a step
Called == acquire_log'[Len(acquire_log')]

\* min(rate_limit, tokens + elapsed * rate_limit / 60), in parts of a token
Filled ==
    IF limiter.tokens + (now - limiter.last_update) * limiter.rate_limit
          <= limiter.rate_limit * Unit
    THEN limiter.tokens + (now - limiter.last_update) * limiter.rate_limit
    ELSE limiter.rate_limit * Unit

\* C29: token-bucket invariant. Before and after every acquire(n), n >= 1,
\* 0 <= tokens <= capacity; the call leaves the tokens at the refill
\* elapsed * capacity / 60 capped at capacity, less n or less nothing, and
\* last_update at now, whether it returns True or False.
TokenBucketInvariant ==
    [][acquire_log' # acquire_log =>
          /\ 0 <= limiter.tokens /\ limiter.tokens <= limiter.rate_limit * Unit
          /\ 0 <= limiter'.tokens /\ limiter'.tokens <= limiter.rate_limit * Unit
          /\ limiter.last_update <= now
          /\ limiter'.tokens \in {Filled, Filled - Called.tokens * Unit}
          /\ limiter'.last_update = now
          /\ limiter'.rate_limit = limiter.rate_limit]_vars

\* C29 witness: an acquire has been refused and one granted, the last call
\* came after the clock had advanced, and last_update is the time of that call
TokenBucketInvariantWitness ==
    /\ \E i, j \in 1..Len(acquire_log) : acquire_log[i].ok /\ ~acquire_log[j].ok
    /\ Len(acquire_log) >= 2
    /\ ~acquire_log[Len(acquire_log)].ok
    /\ acquire_log[Len(acquire_log)].t > acquire_log[1].t
    /\ limiter.last_update = now
    /\ limiter.tokens > 0

\* C30: acquire(n) returns True exactly when the refilled tokens are at least
\* n, and then takes exactly n; a refused acquire returns at the time it was
\* called and takes nothing, and from any later time on the bucket refills to
\* what it would have held without the refused call.
AcquireExact ==
    [][acquire_log' # acquire_log =>
          /\ Called.ok <=> Filled >= Called.tokens * Unit
          /\ Called.ok => limiter'.tokens = Filled - Called.tokens * Unit
          /\ ~Called.ok =>
                /\ limiter'.tokens = Filled
                /\ now' = now
                /\ Called.t = now
                /\ \A d \in Sleeps \cup {0} :
                      Refilled(limiter', now + d) = Refilled(limiter, now + d)]_vars

\* C30 witness: an acquire of two tokens has been refused with a token left in the bucket and
\* granted after a refill
AcquireExactWitness ==
    \E i, j \in 1..Len(acquire_log) :
        /\ i < j
        /\ acquire_log[i].tokens > 1 /\ ~acquire_log[i].ok
        /\ acquire_log[j].tokens > 1 /\ acquire_log[j].ok
        /\ acquire_log[j].t > acquire_log[i].t


\* the threads whose acquire() has returned, and those it returned True to
Returned == {w \in Workers : thread[w].pc = "done"}
Granted == {w \in Returned : thread[w].ret = TRUE}

\* the threads inside acquire()
InAcquire == {w \in Workers : thread[w].pc \notin {"idle", "done"}}

\* C11: acquire is safe under concurrent callers. Refill, check and deduct of one
\* call run with no other call in between (at most one thread is past the
\* lock); tokens never becomes negative; and once k threads have called
\* acquire(1) on a limiter holding t tokens, with no refill, and all have
\* returned, exactly min(k, floor(t)) of them were granted a token and the
\* bucket holds t minus one token per grant.
AcquireAtomic ==
    /\ Cardinality({w \in Workers :
                      thread[w].pc \in {"a_refill", "a_check", "a_deduct",
                                        "a_granted", "a_refused"}}) <= 1
    /\ limiter.tokens >= 0
    /\ InAcquire = {} =>
          /\ Cardinality(Granted) = Min(Cardinality(Returned), tokens0 \div Unit)
          /\ limiter.tokens = tokens0 - Cardinality(Granted) * Unit

\* C11, its case: more threads have called acquire(1) than the bucket held
\* tokens, all have returned, one was granted and one refused
AcquireAtomicWitness ==
    /\ InAcquire = {}
    /\ Cardinality(Returned) >= 2
    /\ tokens0 >= Unit
    /\ Granted # {}
    /\ Returned \ Granted # {}

\* the threads whose get_limiter() has returned
GotLimiter == {w \in Workers : thread[w].pc = "got"}

\* C12: the registry holds exactly one limiter per source name for the process
\* lifetime. Every get_limiter call for a source, concurrent first calls
\* included, returns the instance the registry holds for that source, so two
\* calls return the same instance exactly when they name the same source, and
\* no instance is registered under two sources.
OneLimiterPerSource ==
    /\ \A w \in GotLimiter :
          /\ thread[w].ret # 0
          /\ thread[w].ret = limiters[thread[w].source].id
    /\ \A w1, w2 \in GotLimiter :
          (thread[w1].source = thread[w2].source) <=> (thread[w1].ret = thread[w2].ret)
    /\ \A s1, s2 \in SourceSet :
          (s1 # s2 /\ Registered(s1)) => limiters[s1].id # limiters[s2].id

\* C12, its case: two threads were in get_limiter for the same, not yet
\* registered source, one constructed the limiter and both got that instance
OneLimiterPerSourceWitness ==
    \E w1, w2 \in GotLimiter :
        /\ w1 # w2
        /\ thread[w1].source = thread[w2].source
        /\ thread[w1].new # 0
        /\ thread[w2].new = 0
        /\ thread[w2].ret = thread[w1].new

\* C13 as claimed: no RateLimiter is ever constructed with rate_limit <= 0.
NoLimiterWithoutRefill ==
    \A s \in SourceSet : Registered(s) => limiters[s].limiter.rate_limit > 0

(***************************************************************************)
(* Claims about the attempts of BaseETL.run, checked under SpecRun.        *)
(***************************************************************************)
\* C14 as claimed: every extract call of every registered pipeline is gated by
\* the source's rate limiter, one token per attempt: in every pipeline the
\* tokens acquired number the extract calls made.
ExtractGated ==
    \A r \in Slots : run[r].tokens_acquired = run[r].extract_calls

\* the delays run() has slept through after f failed attempts
Backoffs(f, max_retries, b) ==
    [k \in 1..(IF f < max_retries THEN f ELSE max_retries - 1) |-> Pow(b, k)]

\* C20: backoff law. After its k-th failed attempt, for k = 1 .. max_retries-1,
\* run() sleeps exactly backoff_factor^k seconds before attempt k+1, whatever k
\* and the factor (no jitter, no cap), and it does not sleep after the last
\* failed attempt.
BackoffLaw ==
    \A r \in Slots :
        run[r].pc \notin {"free", "ready", "ctor_raised"} =>
            run[r].slept = Backoffs(run[r].attempt, run[r].max_retries,
                                    run[r].backoff_factor)

\* C20, its case: a run() with max_retries = 3 and backoff_factor = 3 has
\* failed three times and returned false after sleeping 3 and then 9 seconds
BackoffLawWitness ==
    \E r \in Slots :
        /\ run[r].pc = "done" /\ run[r].ret = "false"
        /\ run[r].max_retries = 3 /\ run[r].backoff_factor = 3
        /\ run[r].attempt = 3
        /\ run[r].slept = <<3, 9>>

\* C21: attempts of one run are strictly sequential. Where the loop is about
\* to start an attempt, or has left the loop, no session is open and every
\* attempt whose extract was called has ended; where a transaction is open,
\* it is that of the one attempt that has not ended.
AttemptsSequential ==
    \A r \in DirectSlots :
        /\ run[r].pc \in {"attempt", "finalize"} =>
              /\ run[r].staged = NoStaged
              /\ run[r].extract_calls = run[r].attempt
        /\ run[r].pc = "commit" =>
              /\ run[r].staged.run_rec.run_id = run[r].run_id
              /\ run[r].extract_calls = run[r].attempt + 1

\* C21 witness: an attempt is in its transaction after an earlier attempt of
\* the same run had its transaction rolled back
AttemptsSequentialWitness ==
    \E r \in DirectSlots :
        /\ run[r].pc = "commit"
        /\ run[r].attempt >= 1
        /\ run[r].db_fault

\* C27: run(max_retries) calls extract at most max_retries times and makes
\* at most max_retries attempts; a run that has returned true has committed
\* the attempt of its last extract, and nothing is extracted after that; and
\* every run() that has been entered returns.
BoundedAttempts ==
    /\ [](\A r \in DirectSlots :
             /\ run[r].extract_calls <= run[r].max_retries
             /\ run[r].attempt <= run[r].max_retries
             /\ run[r].ret = "true" =>
                   /\ run[r].pc = "done"
                   /\ run[r].extract_calls = run[r].attempt + 1)
    /\ [][\A r \in DirectSlots :
             (run[r].pc = "done" /\ run'[r].inv = run[r].inv) =>
                 run'[r].extract_calls = run[r].extract_calls]_vars
    /\ \A r \in DirectSlots : InProgress(r) ~> run[r].pc = "done"

\* C27 witness: a run with three attempts allowed has returned true from its second
\* attempt, after two extract calls
BoundedAttemptsWitness ==
    \E r \in DirectSlots :
        /\ run[r].pc = "done"
        /\ run[r].ret = "true"
        /\ run[r].max_retries > 2
        /\ run[r].attempt = 1
        /\ run[r].extract_calls = 2

\* the RunRecord a run writes when it succeeds
SuccessRecords(self) ==
    {x \in etl_runs : x.run_id = self.run_id /\ x.status = "success"}

\* C24: run() returns true exactly in the step that commits the transaction
\* of one of its attempts, and that step puts a RunRecord with status=success
\* into the history and leaves the source's Checkpoint at status=success; a
\* commit that fails changes neither table, counts as a failed attempt and
\* the run goes on to retry or to finalize; and a run that has returned true
\* has its success RunRecord in the history.
TrueIffCommitted ==
    /\ [](\A r \in DirectSlots :
             run[r].ret = "true" => SuccessRecords(run[r]) # {})
    /\ [][\A r \in DirectSlots :
             /\ (run[r].ret # "true" /\ run'[r].ret = "true") <=>
                   (/\ run[r].pc = "commit"
                    /\ etl_runs' = etl_runs \cup {run[r].staged.run_rec}
                    /\ etl_runs' # etl_runs)
             /\ (run[r].ret # "true" /\ run'[r].ret = "true") =>
                   /\ run[r].staged.run_rec.status = "success"
                   /\ run[r].staged.run_rec.run_id = run[r].run_id
                   /\ checkpoints'[run[r].source_name].status = "success"
             /\ (run[r].pc = "commit" /\ run'[r].ret # "true") =>
                   /\ UNCHANGED <<checkpoints, etl_runs, tables>>
                   /\ run'[r].attempt = run[r].attempt + 1
                   /\ run'[r].pc \in {"attempt", "finalize"}]_vars

\* C24 witness: a run has returned true from an attempt that followed one
\* whose commit failed
TrueIffCommittedWitness ==
    \E r \in DirectSlots :
        /\ run[r].ret = "true"
        /\ run[r].attempt >= 1
        /\ run[r].last_error = DbError
        /\ run[r].extract_calls = run[r].attempt + 1
        /\ SuccessRecords(run[r]) # {}
        /\ checkpoints[run[r].source_name].status = "success"

ExhaustedSetsFailure ==
    \A r \in DirectSlots :
        (/\ run[r].pc = "done"
         /\ run[r].ret = "false"
         /\ run[r].max_retries >= 1
         /\ run[r].attempt = run[r].max_retries) =>
            /\ checkpoints[run[r].source_name].status = "failure"
            /\ checkpoints[run[r].source_name].error_message = run[r].last_error

\* C26, amended: the step in which a run that exhausted its retries commits
\* its finalization leaves the source's Checkpoint with status=failure,
\* last_run_at = last_failure_at = the time of its update_checkpoint,
\* error_message = the error of the last attempt, and last_success_at as it
\* was; a finalization that fails leaves the Checkpoint as it was.
FailureCheckpoint ==
    [][\A r \in DirectSlots :
          LET old == checkpoints[run[r].source_name]
              new == checkpoints'[run[r].source_name]
          IN /\ (run[r].pc = "fin_commit" /\ run'[r].pc = "done"
                   /\ run'[r].fin_error = None) =>
                   /\ new.status = "failure"
                   /\ new.last_run_at = {utcnow}
                   /\ new.last_failure_at = {utcnow}
                   /\ new.error_message = run[r].last_error
                   /\ new.last_success_at = old.last_success_at
             /\ (run[r].pc \in {"finalize", "fin_commit"} /\ run'[r].pc = "done"
                   /\ run'[r].fin_error # None) =>
                   new = old]_vars

\* C26 witness: a source that succeeded once has failed since: its Checkpoint
\* shows the failure with its error, and still the time of the success
FailureCheckpointWitness ==
    \E r \in DirectSlots :
        /\ run[r].pc = "done"
        /\ run[r].ret = "false"
        /\ run[r].fin_error = None
        /\ run[r].attempt >= 2
        /\ LET row == checkpoints[run[r].source_name]
           IN /\ row.status = "failure"
              /\ row.error_message = run[r].last_error
              /\ row.last_failure_at = {utcnow}
              /\ row.last_success_at # Null
              /\ row.last_success_at # row.last_failure_at

\* C23: attempt atomicity. A step that ends an attempt as failed, whatever
\* it failed at, leaves raw records, normalized rows, Checkpoints and
\* RunRecords as they were, and nothing is persisted before the commit; the
\* step that commits an attempt adds the raw records of that attempt's items,
\* once, to the raw table of its source and to no other.
AttemptAtomic ==
    [][\A r \in DirectSlots :
          /\ (run[r].pc \in {"attempt", "commit"} /\ run'[r].ret # "true") =>
                UNCHANGED <<checkpoints, etl_runs, coins, raw_tables>>
          /\ (run[r].pc \in {"attempt", "commit"} /\ run'[r].pc \in {"attempt", "finalize"}) =>
                /\ run'[r].attempt = run[r].attempt + 1
                /\ run'[r].staged = NoStaged
          /\ (run[r].ret # "true" /\ run'[r].ret = "true") =>
                /\ raw_tables' = [raw_tables EXCEPT ![run[r].source_name] =
                                     @ + Len(run[r].staged.raw_data)]
                /\ \A x \in coins' \ coins :
                      /\ x.source = run[r].source_name
                      /\ \E i \in 1..Len(run[r].staged.normalized_data) :
                            x.coin_id = run[r].staged.normalized_data[i].coin_id]_vars

\* C23 witness: a run of another source has committed its second attempt
\* after the first, which had an item to store, was rolled back at its
\* commit: its raw table holds the one item of the committed attempt, and
\* what the earlier run of coinpaprika stored is as it was
AttemptAtomicWitness ==
    \E r \in DirectSlots :
        /\ run[r].ret = "true"
        /\ run[r].attempt = 1
        /\ run[r].last_error = IntegrityError
        /\ run[r].source_name # "coinpaprika"
        /\ raw_tables[run[r].source_name] = 1
        /\ \E x \in coins : x.source = run[r].source_name
        /\ FirstCoins.rows \subseteq coins
        /\ \A s \in SourceSet \ {run[r].source_name} :
              raw_tables[s] = IF s = "coinpaprika" THEN 1 ELSE 0

(***************************************************************************)
(* Claims about transform and validation, checked under SpecTransform.     *)
(***************************************************************************)
\* the workers whose transform() has returned
Transformed == {w \in Workers : ingest[w].pc = "transformed"}

\* None or a number that is not negative
NullOrNonNegative(v) == \A x \in v : x >= 0

\* C18 as claimed: every normalized record produced by validation has each of
\* current_price, market_cap, volume_24h, price_change_24h and rank either null
\* or non-negative, and an item with a negative value is kept, not dropped.
NegativeFieldsClamped ==
    \A w \in Transformed :
        /\ \A i \in 1..Len(ingest[w].normalized_data) :
              LET rec == ingest[w].normalized_data[i]
              IN /\ NullOrNonNegative(rec.current_price)
                 /\ NullOrNonNegative(rec.market_cap)
                 /\ NullOrNonNegative(rec.volume_24h)
                 /\ NullOrNonNegative(rec.price_change_24h)
                 /\ NullOrNonNegative(rec.rank)
        /\ \A i \in 1..Len(ingest[w].raw_data) :
              LET item == ingest[w].raw_data[i]
              IN (/\ ~BuildRaises(ingest[w].source, item)
                  /\ Validates(CoinData(ingest[w].source, item, 0)))
                 => Len(TransformItem(ingest[w].source, item, 0)) = 1

\* C19 as claimed: every normalized record produced by transform, for every
\* source, carries a non-empty symbol equal to the upper-cased symbol of its
\* item, with no lower-case letter in it.
SymbolUpperCased ==
    \A w \in Transformed :
        (Len(ingest[w].raw_data) = 1 /\ Len(ingest[w].normalized_data) = 1) =>
            LET item == ingest[w].raw_data[1]
                rec == ingest[w].normalized_data[1]
            IN /\ "symbol" \in DOMAIN item
               /\ item.symbol # Null
               /\ rec.symbol = {Upper(x) : x \in item.symbol}
               /\ \A x \in rec.symbol :
                     /\ Len(x) >= 1
                     /\ \A i \in 1..Len(x) : x[i] \notin LowerCase

(***************************************************************************)
(* Claims about the bookkeeping of a run, checked under SpecAtomic,        *)
(* SpecReuse and SpecRun.                                                  *)
(***************************************************************************)

\* C36 as claimed: the records_processed of a RunRecord and of a Checkpoint
\* counts the normalized records the run has committed only: a failure
\* RunRecord, written when every attempt was rolled back, reports 0, and so
\* does the Checkpoint of a pipeline that returned false.
RecordsProcessedCommitted ==
    /\ \A x \in etl_runs \ {CreateRunRecord(FirstRun, "success", None)} :
          x.status = "failure" => x.records_processed = 0
    /\ \A r \in DirectSlots :
          (run[r].pc = "done" /\ run[r].ret = "false" /\ run[r].fin_error = None) =>
             checkpoints[run[r].source_name].records_processed = 0

\* a committed Checkpoint row shows the outcome of a finished run
Settled(row) ==
    /\ row.status \in {"success", "failure"}
    /\ row.last_run_at # Null
    /\ row.status = "success" =>
          /\ row.error_message = None
          /\ row.last_run_at = row.last_success_at
    /\ row.status = "failure" => row.last_run_at = row.last_failure_at

ZeroRuns ==
    {r \in DirectSlots : run[r].max_retries <= 0
                         /\ run[r].pc \in {"attempt", "commit", "finalize", "fin_commit", "done"}}

EmptyExtractSucceeds ==
    /\ coins = {}
    /\ \A s \in SourceSet : raw_tables[s] = 0
    /\ \A r \in DirectSlots :
          (run[r].pc = "done" /\ run[r].extract_ok /\ ~run[r].db_fault) =>
             /\ run[r].ret = "true"
             /\ run[r].attempt = run[r].extract_calls - 1
             /\ run[r].records_processed = 0
             /\ checkpoints[run[r].source_name].status = "success"
             /\ checkpoints[run[r].source_name].records_processed = 0
             /\ RecordsOf(run[r].run_id) =
                   {[run_id |-> run[r].run_id, source |-> run[r].source_name,
                     status |-> "success", error_message |-> None,
                     records_processed |-> 0]}

\* C39 witness: a csv run has returned true from its first attempt, with one
\* extract call, and the tables are empty
EmptyExtractSucceedsWitness ==
    \E r \in DirectSlots :
        /\ run[r].source_name = "csv"
        /\ run[r].pc = "done"
        /\ run[r].ret = "true"
        /\ run[r].attempt = 0
        /\ run[r].extract_calls = 1
        /\ checkpoints["csv"].status = "success"
        /\ coins = {}
        /\ raw_tables["csv"] = 0

(***************************************************************************)
(* Claims about run_all_sources, checked under SpecLibrary.                *)
(***************************************************************************)
\* the calls run_all_sources(parallel=False) in progress
SeqCalls ==
    {c \in Threads : call[c].kind = "all" /\ ~call[c].parallel /\ call[c].state = "active"}

\* C33: run_all(parallel=False) runs the sources one at a time in
\* registration order. While the call is in progress, the sources registered
\* before the current one have returned from run(), retries included, and
\* have their result recorded or about to be; the current one is the only one
\* that may be running; no source registered after it has been constructed.
SequentialInOrder ==
    \A c \in SeqCalls :
        LET i == call[c].seq_i
        IN /\ i \in 0..Len(Sources)
           /\ \A j \in 1..Len(Sources) :
                 /\ j < i => /\ run[<<c, Sources[j]>>].pc = "done"
                             /\ Sources[j] \in DOMAIN call[c].results
                             /\ call[c].results[Sources[j]] = run[<<c, Sources[j]>>].ret
                 /\ j = i => run[<<c, Sources[j]>>].pc \in
                                {"attempt", "commit", "finalize", "fin_commit", "done"}
                 /\ j > i => run[<<c, Sources[j]>>] = NoPipeline
           /\ DOMAIN call[c].results = {Sources[j] : j \in 1..(IF i = 0 THEN 0 ELSE i - 1)}

\* C33 witness: the first source has used all its retries and returned
\* false, the second is running, the third has not been started
SequentialInOrderWitness ==
    \E c \in SeqCalls :
        /\ call[c].seq_i = 2
        /\ run[<<c, Sources[1]>>].pc = "done"
        /\ run[<<c, Sources[1]>>].ret = "false"
        /\ run[<<c, Sources[1]>>].attempt = DefaultMaxRetries
        /\ run[<<c, Sources[2]>>].pc = "commit"
        /\ run[<<c, Sources[3]>>] = NoPipeline

\* C32: the bounded pool. During run_all(parallel=True), whatever the number
\* of registered sources, at most 3 runs execute at a time; a run that
\* executes has one worker thread, which it keeps from the entry of run() to
\* its return, through the waits on the limiter, the attempts and the backoff
\* sleeps; no two runs share a worker; and every run that executes can take
\* its next step whatever the other runs are doing.
PoolBounded ==
    [][/\ Cardinality(PoolRunning) <= max_workers
       /\ \A t \in PoolRunning :
             /\ Cardinality(WorkerOf(t)) = 1
             /\ ENABLED PoolTaskStep(t)
             /\ pool'.task[t].pc # "done" =>
                   \A w \in WorkerOf(t) : pool'.worker[w] = t
       /\ \A t \in 1..pool.n : t \notin PoolRunning => WorkerOf(t) = {}
       /\ \A t \in 1..pool.n :
             (pool.task[t].pc = "queued" /\ pool'.task[t].pc # "queued") =>
                \E w \in DOMAIN pool.worker : pool.worker[w] = 0 /\ pool'.worker[w] = t]_vars

\* C32 witness: four sources are registered; three runs execute, one waiting
\* on its limiter, one in its second attempt, one in a backoff sleep, and the
\* run of the fourth source is queued
PoolBoundedWitness ==
    /\ pool.n = 4
    /\ Cardinality(PoolRunning) = max_workers
    /\ \E t \in PoolRunning : pool.task[t].pc = "wait"
    /\ \E t \in PoolRunning : pool.task[t].pc = "attempt" /\ pool.task[t].attempt = 1
    /\ \E t \in PoolRunning : pool.task[t].pc = "sleep"
    /\ pool.task[4].pc = "queued"

(***************************************************************************)
(* Claims about transform and load_normalized in the attempts of worker    *)
(* threads, checked under SpecIngest.                                      *)
(***************************************************************************)
\* the workers whose attempt has called transform and still holds its input
HoldsData == {w \in Workers : ingest[w].pc # "idle" /\ ingest[w].raw_data # <<>>}

\* C35 as claimed: transform is a pure, deterministic function of its input:
\* two invocations for the same source on the same raw sequence return the same
\* normalized records, field by field and in the same order.
TransformDeterministic ==
    \A v, w \in HoldsData :
        (ingest[v].source = ingest[w].source /\ ingest[v].raw_data = ingest[w].raw_data) =>
            ingest[v].normalized_data = ingest[w].normalized_data

\* the normalized rows of the sources other than s
RowsOfOthers(rows, s) == {x \in rows : x.source # s}

\* C34: source isolation of load_normalized. The step that ends the load of
\* a pipeline of source A, committed or failed, leaves every normalized row of
\* every other source as it was: none is inserted, changed or removed; a
\* failed load changes no row at all; and no other step changes the table.
LoadTouchesOwnSource ==
    [][/\ \A w \in Workers :
             (ingest[w].pc = "staged" /\ ingest'[w].pc \in {"succeeded", "failed"}) =>
                /\ RowsOfOthers(coins', ingest[w].source) = RowsOfOthers(coins, ingest[w].source)
                /\ ingest'[w].pc = "failed" => coins' = coins
       /\ coins' # coins =>
             \E w \in Workers : ingest[w].pc = "staged" /\ ingest'[w].pc = "succeeded"]_vars

\* C34 witness: coingecko has loaded a coin whose coin_id a row of
\* coinpaprika carries too, another load has failed, and both rows are there
LoadTouchesOwnSourceWitness ==
    \E v, w \in Workers :
        /\ ingest[v].pc = "failed"
        /\ ingest[w].pc = "succeeded"
        /\ ingest[w].source = "coingecko"
        /\ \E x, y \in coins :
              /\ x.source = "coinpaprika"
              /\ y.source = "coingecko"
              /\ x.coin_id = y.coin_id
              /\ x.updated_at < y.updated_at

(***************************************************************************)
(* Claims about RateLimiter.wait, checked under SpecWait.                  *)
(***************************************************************************)
\* C31 as claimed: every wait(n) call with n <= capacity returns in the end,
\* also while other threads keep calling wait on the limiter.
WaitNeverStarves ==
    \A w \in Waiters : (w \in Waiting) ~> (thread[w].pc = "done")

\* C31: wait(n) returns with its n tokens, unless others take tokens for ever.
\* A wait(n) call on a limiter with rate_limit > 0 and n <= capacity returns
\* only from a poll that found n tokens and deducted them, and it does return
\* in the end as time advances unless other threads take tokens from the
\* limiter again and again, for ever.
WaitReturns ==
    /\ [][\A w \in Waiters :
             (thread[w].pc # "done" /\ thread'[w].pc = "done") =>
                /\ thread[w].pc = "polling"
                /\ Enough(Refilled(limiter, now), thread[w].tokens)
                /\ limiter'.tokens = Refilled(limiter, now) - thread[w].tokens * Unit]_vars
    /\ \A w \in Waiters :
          \/ []<><<\E v \in Waiters \ {w} : WaitPoll(v) /\ thread'[v].pc = "done">>_vars
          \/ (w \in Waiting) ~> (thread[w].pc = "done")

\* C31 witness: a thread has returned from wait(2) with the bucket left
\* empty, and another thread is asleep in its wait
WaitReturnsWitness ==
    \E v, w \in Waiters :
        /\ thread[w].pc = "done"
        /\ thread[w].tokens = 2
        /\ limiter.tokens = 0
        /\ thread[v].pc = "sleeping"

====
